---- MODULE Spec2Model ----
(***************************************************************************)
(* Verification model of the metagraph construction / annotation core.     *)
(*                                                                         *)
(* Part I   KmerCollector + utils::ThreadPool (dbg_construct.cpp,          *)
(*          utils.hpp): producers appending k-mers to a shared buffer.     *)
(* Part II  BloomAnnotator and the graph-guided correction                 *)
(*          (dbg_bloom_annotator.cpp).                                     *)
(* Part III BOSS::Chunk: construction from sorted k-mers, push_back,       *)
(*          extend and build_boss_from_chunks (boss_chunk.cpp), and the    *)
(*          older chunk_from_kmers (dbg_construct.cpp).                    *)
(* Part IV  The chunk constructors and recover_source_dummy_nodes          *)
(*          (boss_chunk_construct.cpp, dbg_construct.cpp).                 *)
(* Part V   PreciseAnnotator (dbg_bloom_annotator.cpp) and the handling    *)
(*          of short sequences by the add operations.                      *)
(* Part VI  The VCF reader (vcfparse.h).                                   *)
(* Part VII DBGSD::call_paths (dbg_bitmap.cpp).                            *)
(* Part VIII try_reserve, statement by statement (dbg_construct.cpp).      *)
(***************************************************************************)
EXTENDS Integers, Sequences, FiniteSets, TLC

VARIABLES
    \* ---- Part I: KmerCollector and its thread pool
    num_threads_,            \* KmerCollector::num_threads_
    memory_preallocated,     \* constructor argument, in k-mers
    tasks,                   \* ThreadPool::tasks (queue of pending tasks)
    stop,                    \* ThreadPool::stop
    wpc,                     \* position of every worker thread
    wtask,                   \* id of the task a worker is running (0: none)
    wreads,                  \* reads the running task's generator still yields
    temp_storage,            \* extract_kmers: the task-local buffer
    woffset,                 \* extend_kmer_storage: local `offset`
    wret,                    \* which call site of extend_kmer_storage is active
    kmers_,                  \* KmerCollector::kmers_ (the shared buffer)
    capacity,                \* kmers_.capacity()
    mutex_resize_,           \* owner of mutex_resize_ (0: free)
    copy_excl,               \* exclusive owner of mutex_copy_ (0: none)
    copy_shared,             \* shared owners of mutex_copy_
    sequences_storage_,      \* KmerCollector::sequences_storage_
    stored_sequences_size_,  \* KmerCollector::stored_sequences_size_
    main_pc,                 \* position of the thread that owns the collector
    numCalls,                \* add_sequence / add_sequences calls made so far
    numEnqueued,             \* tasks handed to ThreadPool::enqueue so far
    ran,                     \* history: how often each task was started
    returned,                \* history: tasks whose function has returned
    extracted,               \* history: k-mers produced by sequence_to_kmers
    \* ---- Part II: BloomAnnotator and the correction walks
    graph_,                  \* BloomAnnotator::graph_: the edges of the graph
    num_hash_functions,      \* annotation.num_hash_functions()
    bloom_size_factor_,      \* BloomAnnotator::bloom_size_factor_
    annotation,              \* BloomAnnotator::annotation: one filter per column
    total_traversed_,        \* BloomAnnotator::total_traversed_
    query,                   \* locals of get_annotation_corrected, per thread
    numInserts,              \* add_sequence / add_column calls made so far
    inserted,                \* history: the (k-mer, column) pairs inserted
    \* ---- Part III: BOSS chunks
    chunk_kmers,             \* the sorted distinct k-mer array given to the builder
    plan,                    \* the constructor calls the run makes, in order
    chunks,                  \* the chunks built so far, in list (file) order
    chunk_src,               \* history: per chunk, the input index behind each position
    this_chunk,              \* the chunk push_back and extend are called on
    ext_before,              \* history: `*this` and `other` before the last extend,
                             \* and the number n of extend calls made
    vector_chunk,            \* result of chunk_from_kmers (the older builder)
    boss,                    \* result of build_boss_from_chunks
    chunk_pc,                \* "run", or how the process ended ("fatal", "assert")
    numPush,                 \* push_back calls made so far
    \* ---- Part IV: chunk constructors and dummy recovery
    variant,                 \* which of the two constructors runs
    filter_suffix,           \* constructor argument, encoded
    kmer_storage_,           \* the k-mer array of the constructor's collector
    storage_capacity,        \* its capacity()
    recover,                 \* locals of recover_source_dummy_nodes
    recover_input,           \* history: the array recover_source_dummy_nodes got
    result,                  \* the chunk returned by build_chunk
    build_pc,                \* position of the thread that owns the constructor
    numAdded,                \* add_sequence calls made so far
    \* ---- Part V: PreciseAnnotator
    annotation_exact,        \* PreciseAnnotator::annotation_exact
    numExact,                \* add_sequence / add_column calls made so far
    \* ---- Part VI: the VCF reader
    vcf_file,                \* the records bcf_sweep_fwd yields, in file order
    vcfp,                    \* the vcfparse structure
    vcf_results,             \* history: what every call of get_seq returned
    \* ---- Part VII: DBGSD::call_paths
    dbgsd,                   \* the graph: k_, the k-mers present, split_to_contigs
    call_paths,              \* locals of DBGSD::call_paths
    callbacks,               \* history: the (path, sequence) pairs reported
    \* ---- Part VIII: try_reserve
    reserving                \* the vector's capacity and the locals of try_reserve

collectorVars == <<num_threads_, memory_preallocated, tasks, stop, wpc, wtask,
                   wreads, temp_storage, woffset, wret, kmers_, capacity,
                   mutex_resize_, copy_excl, copy_shared, sequences_storage_,
                   stored_sequences_size_, main_pc, numCalls, numEnqueued, ran,
                   returned, extracted>>

bloomVars == <<graph_, num_hash_functions, bloom_size_factor_, annotation,
               total_traversed_, query, numInserts, inserted>>

chunkVars == <<chunk_kmers, plan, chunks, chunk_src, this_chunk,
               ext_before, vector_chunk, boss, chunk_pc, numPush>>

recoverVars == <<variant, filter_suffix, kmer_storage_, storage_capacity,
                 recover, recover_input, result, build_pc, numAdded>>

preciseVars == <<annotation_exact, numExact>>

vcfVars == <<vcf_file, vcfp, vcf_results>>

pathVars == <<dbgsd, call_paths, callbacks>>

\* The variables of the parts after Part III.
laterVars == <<recoverVars, preciseVars, vcfVars, pathVars, reserving>>

vars == <<collectorVars, bloomVars, chunkVars, laterVars>>

\* What the steps of each part leave alone.
notCollectorVars == <<bloomVars, chunkVars, laterVars>>

notBloomVars == <<collectorVars, chunkVars, laterVars>>

notChunkVars == <<collectorVars, bloomVars, laterVars>>

notRecoverVars == <<collectorVars, bloomVars, chunkVars, preciseVars, vcfVars,
                    pathVars, reserving>>

notPreciseVars == <<collectorVars, bloomVars, chunkVars, recoverVars, vcfVars,
                    pathVars, reserving>>

notVcfVars == <<collectorVars, bloomVars, chunkVars, recoverVars, preciseVars,
                pathVars, reserving>>

notPathVars == <<collectorVars, bloomVars, chunkVars, recoverVars, preciseVars,
                 vcfVars, reserving>>

notReservingVars == <<collectorVars, bloomVars, chunkVars, recoverVars,
                      preciseVars, vcfVars, pathVars>>

(***************************************************************************)
(* Bounds of the model.                                                    *)
(***************************************************************************)
\* The values of num_threads the collector is constructed with: 1 gives a
\* pool without workers, 3 gives two concurrent producers.
ThreadCounts == {1, 2, 3}

MaxCalls == 2        \* add_sequence / add_sequences calls before join()
MaxPrealloc == 2     \* memory_preallocated / sizeof(KMER) ranges over 0..MaxPrealloc

\* Scaled-down value of the chunk size constant (30'000'000 in the source).
kMaxKmersChunkSize == 3

\* Number of character codes used for packing a k-mer into an integer.
AlphSize == 3

\* KmerCollector::k_ of the modelled collector.
k_ == 1

\* The outcome of a reservation that throws std::bad_alloc.
BadAlloc == -1

(***************************************************************************)
(* Generic helpers.                                                        *)
(***************************************************************************)
Range(s) == {s[i] : i \in DOMAIN s}

MaxOf(a, b) == IF a >= b THEN a ELSE b

SetMin(S) == CHOOSE x \in S : \A y \in S : x <= y

RemoveAt(s, i) == [j \in 1..(Len(s) - 1) |-> IF j < i THEN s[j] ELSE s[j + 1]]

RECURSIVE ips4o_sort(_)
\* ips4o::parallel::sort with std::less: the ascending arrangement of s.
ips4o_sort(s) ==
    IF s = <<>> THEN <<>>
    ELSE LET m == SetMin(Range(s))
             i == CHOOSE j \in DOMAIN s : s[j] = m
         IN  <<m>> \o ips4o_sort(RemoveAt(s, i))

RECURSIVE Unique(_)
\* std::unique + erase: drops every element equal to its predecessor.
Unique(s) ==
    IF Len(s) <= 1 THEN s
    ELSE LET r == Unique(SubSeq(s, 1, Len(s) - 1))
         IN  IF s[Len(s)] = s[Len(s) - 1] THEN r ELSE Append(r, s[Len(s)])

\* Mutant: the duplicates are not erased.
sort_only(array, offset) ==
    SubSeq(array, 1, offset) \o ips4o_sort(SubSeq(array, offset + 1, Len(array)))

\* sort_and_remove_duplicates(array, num_threads, offset)
sort_and_remove_duplicates(array, offset) ==
    SubSeq(array, 1, offset)
        \o Unique(ips4o_sort(SubSeq(array, offset + 1, Len(array))))

\* Mutant: the buffer is left as it is.
shrink_kmers_skipped(kmers, offset) == kmers

\* shrink_kmers(kmers, num_threads, verbose, offset)
shrink_kmers(kmers, offset) == sort_and_remove_duplicates(kmers, offset)

RECURSIVE try_reserve_from(_, _, _)
\* The loop of try_reserve and its final reserve(min_size): the set of
\* capacities the vector can end with, and BadAlloc when the last
\* reservation throws.  reserve(n) with n <= capacity() is a no-op and
\* cannot throw; any other reservation may succeed or throw.
try_reserve_from(cap, size, min_size) ==
    IF size > min_size
    THEN IF size <= cap
         THEN {cap}
         ELSE {size} \cup try_reserve_from(cap, min_size + ((size - min_size) * 2) \div 3,
                                           min_size)
    ELSE IF min_size <= cap THEN {cap} ELSE {min_size, BadAlloc}

\* try_reserve(vector, size, min_size)
try_reserve(cap, size, min_size) ==
    try_reserve_from(cap, MaxOf(size, min_size), min_size)

(***************************************************************************)
(* K-mer extraction (KmerExtractor::sequence_to_kmers, non-canonical, no   *)
(* suffix filter): every (k+1)-character window of the read, packed.       *)
(***************************************************************************)
RECURSIVE Pack(_)
Pack(s) == IF s = <<>> THEN 0 ELSE Pack(SubSeq(s, 1, Len(s) - 1)) * AlphSize + s[Len(s)]

sequence_to_kmers(read, k) ==
    IF Len(read) < k + 1 THEN <<>>
    ELSE [i \in 1..(Len(read) - k) |-> Pack(SubSeq(read, i, i + k))]

\* The reads offered to add_sequence.
ReadPool == {<<>>, <<1>>, <<1, 2>>, <<1, 1, 1>>, <<1, 2, 1>>}

\* The generators offered to add_sequences, each as the list of reads it yields.
GeneratorPool == {<<<<1, 2, 1>>, <<1, 1, 2>>, <<2, 2>>>>,
                  <<<<1, 1, 1>>, <<1, 1, 1>>, <<2>>>>}

Workers == {n - 1 : n \in ThreadCounts} \ {0}

\* ThreadPool is constructed with max(1, num_threads_) - 1 workers.
NumWorkers == MaxOf(1, num_threads_) - 1

ActiveWorkers == 1..NumWorkers

TaskIds == 1..(MaxCalls + 1)

Zeros(n) == [i \in 1..n |-> 0]

\* Mutant: the copy starts one element too far.
CopyInto_shifted(buf, offset, temp) ==
    [i \in 1..Len(buf) |->
        IF i > offset + 1 /\ i <= offset + 1 + Len(temp)
        THEN temp[i - offset - 1] ELSE buf[i]]

\* std::copy(temp.begin(), temp.end(), kmers->begin() + offset)
CopyInto(buf, offset, temp) ==
    [i \in 1..Len(buf) |->
        IF i > offset /\ i <= offset + Len(temp) THEN temp[i - offset] ELSE buf[i]]

(***************************************************************************)
(* The annotator's variables while only the collector runs.               *)
(***************************************************************************)
QueryThreads == {1, 2}

\* The locals of a thread that runs no query.
NoQuery ==
    [pc |-> "absent", i |-> <<>>, path_cutoff |-> 0, curannot |-> {},
     pcount_old |-> 0, cur_edge |-> 0, j |-> <<>>, path |-> 0, hasher |-> <<>>,
     indices |-> <<>>, back |-> 0, back_hasher |-> <<>>, loaded |-> 0,
     raw |-> {}, visited |-> {}, fsteps |-> 0, bsteps |-> 0]

(***************************************************************************)
(* The chunk variables while no chunk is being built.                      *)
(***************************************************************************)
\* A chunk slot that holds no chunk object.
NoChunk ==
    [alph_size_ |-> 0, k_ |-> 0, canonical_ |-> FALSE, W_ |-> <<>>,
     last_ |-> <<>>, F_ |-> <<>>, weights_ |-> <<>>, width |-> 0]

\* No graph returned yet by build_boss_from_chunks.
NoBoss ==
    [W |-> <<>>, last |-> <<>>, F |-> <<>>, k_ |-> 0, canonical |-> FALSE,
     weights |-> <<>>, built |-> FALSE]

NoExtend == [this |-> NoChunk, other |-> NoChunk, done |-> FALSE, n |-> 0]

NoChunks ==
    /\ chunk_kmers = <<>>
    /\ plan = <<>>
    /\ chunks = <<>>
    /\ chunk_src = <<>>
    /\ this_chunk = NoChunk
    /\ ext_before = NoExtend
    /\ vector_chunk = NoChunk
    /\ boss = NoBoss
    /\ chunk_pc = "none"
    /\ numPush = 0

\* The locals of recover_source_dummy_nodes while it is not running.
NoRecover ==
    [i |-> 0, cur_pos |-> 0, dummy_begin |-> 0, succ_dummy_begin |-> 0, c |-> 0,
     shrunk |-> 0]

\* The constructor variables while no chunk constructor exists.
NoConstructor ==
    /\ variant = "none"
    /\ filter_suffix = <<>>
    /\ kmer_storage_ = <<>>
    /\ storage_capacity = 0
    /\ recover = NoRecover
    /\ recover_input = <<>>
    /\ result = NoChunk
    /\ build_pc = "none"
    /\ numAdded = 0

\* The exact annotation without columns.
NoExact == [size |-> 0, pairs |-> {}]

\* The variables of the precise annotator while it does not exist.
NoPrecise ==
    /\ annotation_exact = NoExact
    /\ numExact = 0

\* The variables of the VCF reader while no reader exists.
NoVcf ==
    /\ vcf_file = <<>>
    /\ vcfp = <<>>
    /\ vcf_results = <<>>

\* The variables of the path traversal while no DBGSD graph exists.
NoPaths ==
    /\ dbgsd = <<>>
    /\ call_paths = <<>>
    /\ callbacks = <<>>

\* No call of try_reserve is followed statement by statement.
NoReserving == reserving = <<>>

\* The parts after Part V are idle.
NoReaders == NoVcf /\ NoPaths /\ NoReserving

\* The parts after Part III are idle.
NoLater == NoConstructor /\ NoPrecise /\ NoReaders

NoAnnotator ==
    /\ graph_ = {}
    /\ num_hash_functions = 0
    /\ bloom_size_factor_ = 0
    /\ annotation = <<>>
    /\ total_traversed_ = 0
    /\ query = [t \in QueryThreads |-> NoQuery]
    /\ numInserts = 0
    /\ inserted = {}

(***************************************************************************)
(* Part I: initial state (after KmerCollector's constructor).              *)
(***************************************************************************)
CollectorStart ==
    /\ num_threads_ \in ThreadCounts
    /\ memory_preallocated \in 0..MaxPrealloc
    /\ capacity \in try_reserve(0, memory_preallocated, 0)
    /\ tasks = <<>>
    /\ stop = FALSE
    /\ wpc = [w \in Workers |-> IF w <= NumWorkers THEN "idle" ELSE "absent"]
    /\ wtask = [w \in Workers |-> 0]
    /\ wreads = [w \in Workers |-> <<>>]
    /\ temp_storage = [w \in Workers |-> <<>>]
    /\ woffset = [w \in Workers |-> 0]
    /\ wret = [w \in Workers |-> "none"]
    /\ kmers_ = <<>>
    /\ mutex_resize_ = 0
    /\ copy_excl = 0
    /\ copy_shared = {}
    /\ sequences_storage_ = <<>>
    /\ stored_sequences_size_ = 0
    /\ main_pc = "open"
    /\ numCalls = 0
    /\ numEnqueued = 0
    /\ ran = [t \in TaskIds |-> 0]
    /\ returned = {}
    /\ extracted = {}

CollectorInit ==
    /\ CollectorStart
    /\ NoAnnotator
    /\ NoChunks
    /\ NoLater

\* exit(1) ends the process: nothing runs afterwards.
Running == main_pc # "fatal"

(***************************************************************************)
(* ThreadPool::enqueue and the collector's calls.                          *)
(***************************************************************************)
\* ThreadPool::enqueue: the task is appended to the queue (stop is false
\* whenever the collector enqueues: it only enqueues before join()).
enqueue(reads) ==
    /\ tasks' = Append(tasks, [id |-> numEnqueued + 1, reads |-> reads])
    /\ numEnqueued' = numEnqueued + 1

\* KmerCollector::release_task_to_pool
release_task_to_pool(storage) ==
    /\ enqueue(storage)
    /\ sequences_storage_' = <<>>
    /\ stored_sequences_size_' = 0

\* KmerCollector::add_sequence
add_sequence(sequence) ==
    /\ main_pc = "open"
    /\ numCalls < MaxCalls
    /\ numCalls' = numCalls + 1
    /\ IF Len(sequence) < k_
       THEN UNCHANGED <<tasks, numEnqueued, sequences_storage_, stored_sequences_size_>>
       ELSE IF stored_sequences_size_ + Len(sequence) < kMaxKmersChunkSize
            THEN /\ stored_sequences_size_' = stored_sequences_size_ + Len(sequence)
                 /\ sequences_storage_' = Append(sequences_storage_, sequence)
                 /\ UNCHANGED <<tasks, numEnqueued>>
            ELSE release_task_to_pool(Append(sequences_storage_, sequence))
    /\ UNCHANGED notCollectorVars
    /\ UNCHANGED <<num_threads_, memory_preallocated, stop, wpc, wtask, wreads,
                   temp_storage, woffset, wret, kmers_, capacity, mutex_resize_,
                   copy_excl, copy_shared, main_pc, ran, returned, extracted>>

\* KmerCollector::add_sequences
add_sequences(generate_sequences) ==
    /\ main_pc = "open"
    /\ numCalls < MaxCalls
    /\ numCalls' = numCalls + 1
    /\ enqueue(generate_sequences)
    /\ UNCHANGED notCollectorVars
    /\ UNCHANGED <<num_threads_, memory_preallocated, stop, wpc, wtask, wreads,
                   temp_storage, woffset, wret, kmers_, capacity, mutex_resize_,
                   copy_excl, copy_shared, sequences_storage_,
                   stored_sequences_size_, main_pc, ran, returned, extracted>>

\* KmerCollector::join, first statement: release_task_to_pool()
JoinRelease ==
    /\ main_pc = "open"
    /\ release_task_to_pool(sequences_storage_)
    /\ main_pc' = "pool_stop"
    /\ UNCHANGED notCollectorVars
    /\ UNCHANGED <<num_threads_, memory_preallocated, stop, wpc, wtask, wreads,
                   temp_storage, woffset, wret, kmers_, capacity, mutex_resize_,
                   copy_excl, copy_shared, numCalls, ran, returned, extracted>>

\* ThreadPool::join: stop = true under the queue mutex, notify_all
PoolStop ==
    /\ main_pc = "pool_stop"
    /\ stop' = TRUE
    /\ main_pc' = "pool_join"
    /\ UNCHANGED notCollectorVars
    /\ UNCHANGED <<num_threads_, memory_preallocated, tasks, wpc, wtask, wreads,
                   temp_storage, woffset, wret, kmers_, capacity, mutex_resize_,
                   copy_excl, copy_shared, sequences_storage_,
                   stored_sequences_size_, numCalls, numEnqueued, ran, returned,
                   extracted>>

\* ThreadPool::join: worker.join() has returned for every worker
PoolJoined ==
    /\ main_pc = "pool_join"
    /\ \A w \in ActiveWorkers : wpc[w] = "exited"
    /\ main_pc' = "sort"
    /\ UNCHANGED notCollectorVars
    /\ UNCHANGED <<num_threads_, memory_preallocated, tasks, stop, wpc, wtask,
                   wreads, temp_storage, woffset, wret, kmers_, capacity,
                   mutex_resize_, copy_excl, copy_shared, sequences_storage_,
                   stored_sequences_size_, numCalls, numEnqueued, ran, returned,
                   extracted>>

\* KmerCollector::join, last statement: sort_and_remove_duplicates(&kmers_)
FinalSort ==
    /\ main_pc = "sort"
    /\ kmers_' = sort_and_remove_duplicates(kmers_, 0)
    /\ main_pc' = "done"
    /\ UNCHANGED notCollectorVars
    /\ UNCHANGED <<num_threads_, memory_preallocated, tasks, stop, wpc, wtask,
                   wreads, temp_storage, woffset, wret, capacity, mutex_resize_,
                   copy_excl, copy_shared, sequences_storage_,
                   stored_sequences_size_, numCalls, numEnqueued, ran, returned,
                   extracted>>

(***************************************************************************)
(* The worker threads of the pool (ThreadPool's constructor lambda) and    *)
(* the task they run, extract_kmers.                                       *)
(***************************************************************************)
\* Worker loop: condition.wait returned with a task in the queue; pop it
\* and start it (extract_kmers: temp_storage is created empty).
WorkerTake(w) ==
    /\ Running
    /\ wpc[w] = "idle"
    /\ tasks # <<>>
    /\ tasks' = Tail(tasks)
    /\ wtask' = [wtask EXCEPT ![w] = Head(tasks).id]
    /\ wreads' = [wreads EXCEPT ![w] = Head(tasks).reads]
    /\ temp_storage' = [temp_storage EXCEPT ![w] = <<>>]
    /\ ran' = [ran EXCEPT ![Head(tasks).id] = @ + 1]
    /\ wpc' = [wpc EXCEPT ![w] = "read"]
    /\ UNCHANGED notCollectorVars
    /\ UNCHANGED <<num_threads_, memory_preallocated, stop, woffset, wret, kmers_,
                   capacity, mutex_resize_, copy_excl, copy_shared,
                   sequences_storage_, stored_sequences_size_, main_pc, numCalls,
                   numEnqueued, returned, extracted>>

\* Worker loop: stop && tasks.empty() -> the thread function returns.
WorkerExit(w) ==
    /\ Running
    /\ wpc[w] = "idle"
    /\ stop
    /\ tasks = <<>>
    /\ wpc' = [wpc EXCEPT ![w] = "exited"]
    /\ UNCHANGED notCollectorVars
    /\ UNCHANGED <<num_threads_, memory_preallocated, tasks, stop, wtask, wreads,
                   temp_storage, woffset, wret, kmers_, capacity, mutex_resize_,
                   copy_excl, copy_shared, sequences_storage_,
                   stored_sequences_size_, main_pc, numCalls, numEnqueued, ran,
                   returned, extracted>>

\* extract_kmers: the callback invoked for one read of the generator.
ExtractRead(w) ==
    /\ Running
    /\ wpc[w] = "read"
    /\ wreads[w] # <<>>
    /\ LET read == Head(wreads[w])
           found == sequence_to_kmers(read, k_)
           filled == temp_storage[w] \o found
           sorted == sort_and_remove_duplicates(filled, 0)
       IN  /\ extracted' = extracted \cup Range(found)
           /\ wreads' = [wreads EXCEPT ![w] = Tail(@)]
           /\ IF Len(filled) < kMaxKmersChunkSize
              THEN /\ temp_storage' = [temp_storage EXCEPT ![w] = filled]
                   /\ UNCHANGED <<wpc, wret>>
              ELSE /\ temp_storage' = [temp_storage EXCEPT ![w] = sorted]
                   /\ IF Len(sorted) * 10 > 9 * kMaxKmersChunkSize
                      THEN /\ wpc' = [wpc EXCEPT ![w] = "lock_resize"]
                           /\ wret' = [wret EXCEPT ![w] = "read"]
                      ELSE UNCHANGED <<wpc, wret>>
    /\ UNCHANGED notCollectorVars
    /\ UNCHANGED <<num_threads_, memory_preallocated, tasks, stop, wtask, woffset,
                   kmers_, capacity, mutex_resize_, copy_excl, copy_shared,
                   sequences_storage_, stored_sequences_size_, main_pc, numCalls,
                   numEnqueued, ran, returned>>

\* extract_kmers: the generator is exhausted; flush what is left, or return.
ExtractEnd(w) ==
    /\ Running
    /\ wpc[w] = "read"
    /\ wreads[w] = <<>>
    /\ IF temp_storage[w] # <<>>
       THEN /\ temp_storage' = [temp_storage EXCEPT
                                   ![w] = sort_and_remove_duplicates(@, 0)]
            /\ wpc' = [wpc EXCEPT ![w] = "lock_resize"]
            /\ wret' = [wret EXCEPT ![w] = "end"]
            /\ UNCHANGED <<wtask, returned>>
       ELSE /\ wpc' = [wpc EXCEPT ![w] = "idle"]
            /\ returned' = returned \cup {wtask[w]}
            /\ wtask' = [wtask EXCEPT ![w] = 0]
            /\ UNCHANGED <<temp_storage, wret>>
    /\ UNCHANGED notCollectorVars
    /\ UNCHANGED <<num_threads_, memory_preallocated, tasks, stop, wreads, woffset,
                   kmers_, capacity, mutex_resize_, copy_excl, copy_shared,
                   sequences_storage_, stored_sequences_size_, main_pc, numCalls,
                   numEnqueued, ran, extracted>>

(***************************************************************************)
(* extend_kmer_storage, statement by statement.                            *)
(***************************************************************************)
\* Mutant: the exclusive lock is taken without waiting for the copiers.
ReallocateLockFree_nowait == copy_excl = 0

\* std::unique_lock<std::shared_timed_mutex> can be acquired
ReallocateLockFree == copy_excl = 0 /\ copy_shared = {}

\* std::shared_lock<std::shared_timed_mutex> can be acquired
CopyLockFree == copy_excl = 0

\* unique_lock resize_lock(mutex_resize), then the capacity test
LockResize(w) ==
    /\ Running
    /\ wpc[w] = "lock_resize"
    /\ mutex_resize_ = 0
    /\ mutex_resize_' = w
    /\ wpc' = [wpc EXCEPT ![w] =
                  IF Len(kmers_) + Len(temp_storage[w]) > capacity
                  THEN "lock_reallocate" ELSE "resize"]
    /\ UNCHANGED notCollectorVars
    /\ UNCHANGED <<num_threads_, memory_preallocated, tasks, stop, wtask, wreads,
                   temp_storage, woffset, wret, kmers_, capacity, copy_excl,
                   copy_shared, sequences_storage_, stored_sequences_size_, main_pc,
                   numCalls, numEnqueued, ran, returned, extracted>>

\* unique_lock reallocate_lock(mutex_copy)
LockReallocate(w) ==
    /\ Running
    /\ wpc[w] = "lock_reallocate"
    /\ ReallocateLockFree
    /\ copy_excl' = w
    /\ wpc' = [wpc EXCEPT ![w] = "shrink"]
    /\ UNCHANGED notCollectorVars
    /\ UNCHANGED <<num_threads_, memory_preallocated, tasks, stop, wtask, wreads,
                   temp_storage, woffset, wret, kmers_, capacity, mutex_resize_,
                   copy_shared, sequences_storage_, stored_sequences_size_, main_pc,
                   numCalls, numEnqueued, ran, returned, extracted>>

\* shrink_kmers(kmers, num_threads, verbose)
Shrink(w) ==
    /\ Running
    /\ wpc[w] = "shrink"
    /\ kmers_' = shrink_kmers(kmers_, 0)
    /\ wpc' = [wpc EXCEPT ![w] = "reserve"]
    /\ UNCHANGED notCollectorVars
    /\ UNCHANGED <<num_threads_, memory_preallocated, tasks, stop, wtask, wreads,
                   temp_storage, woffset, wret, capacity, mutex_resize_, copy_excl,
                   copy_shared, sequences_storage_, stored_sequences_size_, main_pc,
                   numCalls, numEnqueued, ran, returned, extracted>>

\* try_reserve(kmers, size + size / 2, size + temp_storage.size()); on
\* std::bad_alloc the process exits, otherwise reallocate_lock is released.
Reserve(w) ==
    /\ Running
    /\ wpc[w] = "reserve"
    /\ \E outcome \in try_reserve(capacity, Len(kmers_) + Len(kmers_) \div 2,
                                  Len(kmers_) + Len(temp_storage[w])) :
          IF outcome = BadAlloc
          THEN /\ main_pc' = "fatal"
               /\ UNCHANGED <<capacity, copy_excl, wpc>>
          ELSE /\ capacity' = outcome
               /\ copy_excl' = 0
               /\ wpc' = [wpc EXCEPT ![w] = "resize"]
               /\ UNCHANGED main_pc
    /\ UNCHANGED notCollectorVars
    /\ UNCHANGED <<num_threads_, memory_preallocated, tasks, stop, wtask, wreads,
                   temp_storage, woffset, wret, kmers_, mutex_resize_, copy_shared,
                   sequences_storage_, stored_sequences_size_, numCalls,
                   numEnqueued, ran, returned, extracted>>

\* offset = kmers->size(); kmers->resize(kmers->size() + temp_storage.size())
\* (the new elements are value-initialised; a vector asked to grow past its
\* capacity reallocates to at least the new size).
Resize(w) ==
    /\ Running
    /\ wpc[w] = "resize"
    /\ woffset' = [woffset EXCEPT ![w] = Len(kmers_)]
    /\ kmers_' = kmers_ \o Zeros(Len(temp_storage[w]))
    /\ capacity' = MaxOf(capacity, Len(kmers_) + Len(temp_storage[w]))
    /\ wpc' = [wpc EXCEPT ![w] = "lock_shared"]
    /\ UNCHANGED notCollectorVars
    /\ UNCHANGED <<num_threads_, memory_preallocated, tasks, stop, wtask, wreads,
                   temp_storage, wret, mutex_resize_, copy_excl, copy_shared,
                   sequences_storage_, stored_sequences_size_, main_pc, numCalls,
                   numEnqueued, ran, returned, extracted>>

\* shared_lock copy_lock(mutex_copy); resize_lock.unlock()
LockShared(w) ==
    /\ Running
    /\ wpc[w] = "lock_shared"
    /\ CopyLockFree
    /\ copy_shared' = copy_shared \cup {w}
    /\ mutex_resize_' = 0
    /\ wpc' = [wpc EXCEPT ![w] = "copy"]
    /\ UNCHANGED notCollectorVars
    /\ UNCHANGED <<num_threads_, memory_preallocated, tasks, stop, wtask, wreads,
                   temp_storage, woffset, wret, kmers_, capacity, copy_excl,
                   sequences_storage_, stored_sequences_size_, main_pc, numCalls,
                   numEnqueued, ran, returned, extracted>>

\* std::copy into the reserved range, copy_lock released on return; then
\* either temp_storage.resize(0) (call inside the callback) or the task
\* returns (call after the generator).
Copy(w) ==
    /\ Running
    /\ wpc[w] = "copy"
    /\ kmers_' = CopyInto(kmers_, woffset[w], temp_storage[w])
    /\ copy_shared' = copy_shared \ {w}
    /\ temp_storage' = [temp_storage EXCEPT ![w] = <<>>]
    /\ IF wret[w] = "read"
       THEN /\ wpc' = [wpc EXCEPT ![w] = "read"]
            /\ UNCHANGED <<wtask, returned>>
       ELSE /\ wpc' = [wpc EXCEPT ![w] = "idle"]
            /\ returned' = returned \cup {wtask[w]}
            /\ wtask' = [wtask EXCEPT ![w] = 0]
    /\ wret' = [wret EXCEPT ![w] = "none"]
    /\ UNCHANGED notCollectorVars
    /\ UNCHANGED <<num_threads_, memory_preallocated, tasks, stop, wreads, woffset,
                   capacity, mutex_resize_, copy_excl, sequences_storage_,
                   stored_sequences_size_, main_pc, numCalls, numEnqueued, ran,
                   extracted>>

CollectorNext ==
    \/ \E sequence \in ReadPool : add_sequence(sequence)
    \/ \E generate_sequences \in GeneratorPool : add_sequences(generate_sequences)
    \/ JoinRelease
    \/ PoolStop
    \/ PoolJoined
    \/ FinalSort
    \/ \E w \in Workers :
          \/ WorkerTake(w)
          \/ WorkerExit(w)
          \/ ExtractRead(w)
          \/ ExtractEnd(w)
          \/ LockResize(w)
          \/ LockReallocate(w)
          \/ Shrink(w)
          \/ Reserve(w)
          \/ Resize(w)
          \/ LockShared(w)
          \/ Copy(w)

SpecCollector == CollectorInit /\ [][CollectorNext]_vars

(***************************************************************************)
(* Properties of the collector.                                            *)
(***************************************************************************)
InGrowBranch(w) == wpc[w] \in {"shrink", "reserve"}

\* A range was appended by resize and the copy into it has not finished.
HasUncopiedRange(w) == wpc[w] \in {"lock_shared", "copy"}

\* C1: after KmerCollector::join() the shared buffer holds exactly the set
\* of k-mers the producers extracted, for every number of threads and every
\* interleaving: nothing extracted is lost, nothing else appears.
C1_BufferHoldsExtracted == main_pc = "done" => Range(kmers_) = extracted

\* C1 witness: join() completed after two workers appended at least three
\* distinct k-mers and the buffer was deduplicated and regrown on the way.
C1_Witness ==
    /\ main_pc = "done"
    /\ NumWorkers = 2
    /\ capacity > memory_preallocated
    /\ Cardinality(extracted) >= 3
    /\ \A t \in 1..numEnqueued : t \in returned

\* C2: after KmerCollector::join() the buffer is strictly increasing.
C2_StrictlySortedAfterJoin ==
    main_pc = "done" => \A i \in 1..(Len(kmers_) - 1) : kmers_[i] < kmers_[i + 1]

\* C2 witness: join() completed with at least three k-mers in the buffer,
\* after both add_sequence and add_sequences were used.
C2_Witness == main_pc = "done" /\ Len(kmers_) >= 3 /\ numCalls = MaxCalls

\* C3: at most one producer is in the grow branch (shrink_kmers +
\* try_reserve), and while it is there no other producer holds a range it
\* has resized into the buffer and not yet finished copying.
C3_GrowExcludesCopy ==
    \A w \in Workers :
        InGrowBranch(w) =>
            \A v \in Workers \ {w} : ~InGrowBranch(v) /\ ~HasUncopiedRange(v)

\* C3 witness: a producer deduplicates a non-empty buffer in the grow branch
\* while another producer is waiting to append.
C3_Witness ==
    \E w, v \in Workers :
        /\ wpc[w] = "shrink"
        /\ wpc[v] = "lock_resize"
        /\ kmers_ # <<>>

\* C4: every task enqueued before join() has been executed exactly once and
\* has returned when ThreadPool::join() returns, for every number of worker
\* threads; the final sort starts only after all producer tasks finished.
C4_AllTasksRunBeforeJoinReturns ==
    main_pc \in {"sort", "done"} =>
        \A t \in 1..numEnqueued : ran[t] = 1 /\ t \in returned

\* ---- C27 -------------------------------------------------------------------
\* Producer w takes the step from position `from` to position `to` of
\* extend_kmer_storage.
ExtendStep(w, from, to) == wpc[w] = from /\ wpc'[w] = to

\* The first size try_reserve asks for in extend_kmer_storage.
ReservationTarget(size, chunk_size) ==
    MaxOf(size + size \div 2, size + chunk_size)

\* C27: a producer enters the grow branch exactly when size + chunk_size
\* exceeds the capacity; there the whole buffer is sorted and deduplicated
\* before anything is reserved; the reservation is computed from the
\* deduplicated size, asks for at most max(size + size/2, size + chunk_size)
\* and, unless the process exits, leaves a capacity of at least the
\* deduplicated size + chunk_size without touching the buffer.
C27_GrowDeduplicatesThenReserves ==
    [][\A w \in Workers :
          LET size == Len(kmers_)
              chunk_size == Len(temp_storage[w])
          IN  /\ ExtendStep(w, "lock_resize", "lock_reallocate")
                    => size + chunk_size > capacity
              /\ ExtendStep(w, "lock_resize", "resize")
                    => size + chunk_size <= capacity
              /\ ExtendStep(w, "shrink", "reserve") =>
                    /\ \A i \in 1..(Len(kmers_') - 1) : kmers_'[i] < kmers_'[i + 1]
                    /\ Range(kmers_') = Range(kmers_)
                    /\ capacity' = capacity
              /\ ExtendStep(w, "reserve", "resize") =>
                    /\ \A i \in 1..(size - 1) : kmers_[i] < kmers_[i + 1]
                    /\ kmers_' = kmers_
                    /\ capacity' >= size + chunk_size
                    /\ capacity' >= capacity
                    /\ capacity' <= MaxOf(capacity, ReservationTarget(size, chunk_size))
              /\ (wpc[w] = "resize" /\ wpc'[w] # "resize") =>
                    capacity >= size + chunk_size]_vars

\* A producer is about to append to a buffer of at least four k-mers whose
\* capacity is size + size/2, the first size try_reserve asks for, which is
\* more than the chunk needs.
C27_Witness ==
    \E w \in Workers :
        /\ wpc[w] = "resize"
        /\ Len(kmers_) >= 4
        /\ capacity = Len(kmers_) + Len(kmers_) \div 2
        /\ capacity > Len(kmers_) + Len(temp_storage[w])
        /\ Cardinality(extracted) >= 4

(***************************************************************************)
(* Part II.  BloomAnnotator (dbg_bloom_annotator.cpp).                     *)
(*                                                                         *)
(* The graph wrapper, the Bloom filter container and the hash iterator are *)
(* declared in headers that are not part of the sources; they are modelled *)
(* from their description: a de Bruijn graph whose edges are (k+1)-mers    *)
(* with source and sink dummy edges, one bit array per column, and a       *)
(* rolling hash that depends only on the k-mer it currently covers.        *)
(***************************************************************************)
MaxInserts == 2      \* add_sequence / add_column calls on the annotator
MaxCutoff == 2       \* path_cutoff ranges over 0..MaxCutoff

\* graph_.get_k(): the node length; edges are (GraphK + 1)-mers.
GraphK == 2

\* The sentinel character '$'; the other characters of the alphabet.
Sentinel == 0

Letters == {1, 2}

Columns == {0, 1}

HashCounts == {1, 2}

BloomSizeFactors == {0, 1}

\* Input sequences; 7 is a character outside the alphabet.
SeqPool == {<<1, 2>>, <<1, 1, 2>>, <<1, 1, 2, 2>>, <<1, 1, 1, 1>>, <<2, 7, 1>>}

\* Sets of sequences a graph is built from.
GraphPool == {{<<1, 1, 2, 2>>}, {<<1, 1, 1, 1>>}, {<<1, 1, 2, 2>>, <<1, 1, 1, 1>>},
              {<<1, 2, 1, 2, 1>>, <<2, 2, 1>>}}

\* graph_.encode_sequence: characters outside the alphabet become the sentinel.
encode_sequence(sequence) ==
    [p \in 1..Len(sequence) |->
        IF sequence[p] \in Letters THEN sequence[p] ELSE Sentinel]

\* All substrings of length n of s.
Windows(s, n) == {SubSeq(s, p, p + n - 1) : p \in 1..(Len(s) - n + 1)}

RECURSIVE SentinelRun(_)
SentinelRun(n) == IF n = 0 THEN <<>> ELSE Append(SentinelRun(n - 1), Sentinel)

\* ---- the graph behind DeBruijnGraphWrapper ------------------------------
get_node_kmer(e) == SubSeq(e, 1, GraphK)

get_edge_label(e) == e[GraphK + 1]

TargetNode(e) == SubSeq(e, 2, GraphK + 1)

RealEdges(seqs) == UNION {Windows(encode_sequence(s), GraphK + 1) : s \in seqs}

\* One sink dummy edge for every node without a real outgoing edge.
SinkDummyEdges(seqs) ==
    {TargetNode(e) \o <<Sentinel>> :
        e \in {r \in RealEdges(seqs) :
                 \A o \in RealEdges(seqs) : get_node_kmer(o) # TargetNode(r)}}

\* The chain of source dummy edges into every node without a real incoming edge.
SourceDummyEdges(seqs) ==
    UNION {{SentinelRun(m) \o SubSeq(e, 1, GraphK + 1 - m) : m \in 1..GraphK} :
             e \in {r \in RealEdges(seqs) :
                      \A o \in RealEdges(seqs) : TargetNode(o) # get_node_kmer(r)}}

\* The edges of the graph built from the sequences seqs.
GraphEdges(seqs) ==
    RealEdges(seqs) \cup SinkDummyEdges(seqs) \cup SourceDummyEdges(seqs)
        \cup {SentinelRun(GraphK + 1)}

Edges == graph_

OutEdges(node) == {e \in Edges : get_node_kmer(e) = node}

InEdges(node) == {e \in Edges : TargetNode(e) = node}

RECURSIVE KmerCode(_)
KmerCode(kmer) ==
    IF kmer = <<>> THEN 0
    ELSE KmerCode(SubSeq(kmer, 1, Len(kmer) - 1)) * (Cardinality(Letters) + 1)
            + kmer[Len(kmer)]

\* graph_.next_edge: the last outgoing edge of the node the edge j leads to.
next_edge(j, edge_label) ==
    CHOOSE e \in OutEdges(TargetNode(j)) :
        \A o \in OutEdges(TargetNode(j)) : KmerCode(o) <= KmerCode(e)

\* graph_.prev_edge: the first incoming edge of the node the edge j leaves.
prev_edge(j) ==
    CHOOSE e \in InEdges(get_node_kmer(j)) :
        \A o \in InEdges(get_node_kmer(j)) : KmerCode(e) <= KmerCode(o)

has_the_only_outgoing_edge(j) == Cardinality(OutEdges(get_node_kmer(j))) = 1

has_the_only_incoming_edge(j) == Cardinality(InEdges(get_node_kmer(j))) = 1

is_dummy_label(edge_label) == edge_label = Sentinel

is_dummy_edge(kmer) == \E p \in 1..Len(kmer) : kmer[p] = Sentinel

\* BloomAnnotator::kmer_from_index
kmer_from_index(index) == get_node_kmer(index) \o <<get_edge_label(index)>>

\* ---- hashing and the Bloom filters --------------------------------------
\* The f-th hash of a k-mer.
HashOf(f, kmer) == KmerCode(kmer) * (2 * f - 1) + (f - 1)

\* HashIt::get_hash: the hashes of the k-mer the iterator covers.
get_hash(hasher) == {HashOf(f, hasher) : f \in 1..num_hash_functions}

\* HashIt::update / reverse_update: slide the covered k-mer by one character.
update(hasher, c) == Append(Tail(hasher), c)

reverse_update(hasher, c) == <<c>> \o SubSeq(hasher, 1, Len(hasher) - 1)

\* BloomAnnotator::hasher_from_kmer
hasher_from_kmer(kmer) == kmer

EmptyFilter == [size |-> 0, bits |-> {}]

\* annotation.resize(n)
annotation_resize(annot, n) ==
    annot \o [p \in 1..(n - Len(annot)) |-> EmptyFilter]

\* annotation.insert(hashes, column)
annotation_insert(annot, hashes, column) ==
    [annot EXCEPT ![column + 1].bits =
        @ \cup {hv % annot[column + 1].size : hv \in hashes}]

\* annotation.find(hashes): the columns whose filter holds every hash.
annotation_find(annot, hashes) ==
    {c \in 0..(Len(annot) - 1) :
        /\ annot[c + 1].size > 0
        /\ \A hv \in hashes : (hv % annot[c + 1].size) \in annot[c + 1].bits}

\* annotate::merge_and and annotate::popcount on packed bit vectors.
merge_and(a, b) == a \cap b

popcount(a) == Cardinality(a)

\* ---- BloomAnnotator ------------------------------------------------------
\* Mutant: the column's filter is sized anew on every insert.
bloom_add_sequence_resizing(annot, sequence, column) ==
    LET preprocessed_seq == encode_sequence(sequence)
        grown == IF column >= Len(annot)
                 THEN annotation_resize(annot, column + 1) ELSE annot
        sized == [grown EXCEPT ![column + 1] =
                     [size |-> bloom_size_factor_
                                 * (Len(preprocessed_seq) - GraphK) + 1,
                      bits |-> {}]]
        hashes == UNION {get_hash(hasher_from_kmer(kmer)) :
                           kmer \in Windows(preprocessed_seq, GraphK + 1)}
    IN  IF Len(preprocessed_seq) < GraphK + 1
        THEN annot
        ELSE annotation_insert(sized, hashes, column)

\* Mutant: the column is created before the length of the sequence is looked at.
bloom_add_sequence_column_first(annot, sequence, column) ==
    LET preprocessed_seq == encode_sequence(sequence)
        grown == IF column >= Len(annot)
                 THEN annotation_resize(annot, column + 1) ELSE annot
        sized == IF grown[column + 1].size = 0
                 THEN [grown EXCEPT ![column + 1].size =
                          bloom_size_factor_
                             * (Len(preprocessed_seq) - GraphK) + 1]
                 ELSE grown
        hashes == UNION {get_hash(hasher_from_kmer(kmer)) :
                           kmer \in Windows(preprocessed_seq, GraphK + 1)}
    IN  IF Len(preprocessed_seq) < GraphK + 1
        THEN grown
        ELSE annotation_insert(sized, hashes, column)

\* BloomAnnotator::add_sequence, as a function of the filters.
bloom_add_sequence(annot, sequence, column) ==
    LET preprocessed_seq == encode_sequence(sequence)
        grown == IF column >= Len(annot)
                 THEN annotation_resize(annot, column + 1) ELSE annot
        sized == IF grown[column + 1].size = 0
                 THEN [grown EXCEPT ![column + 1].size =
                          bloom_size_factor_
                             * (Len(preprocessed_seq) - GraphK) + 1]
                 ELSE grown
        hashes == UNION {get_hash(hasher_from_kmer(kmer)) :
                           kmer \in Windows(preprocessed_seq, GraphK + 1)}
    IN  IF Len(preprocessed_seq) < GraphK + 1
        THEN annot
        ELSE annotation_insert(sized, hashes, column)

\* BloomAnnotator::annotation_from_hasher
annotation_from_hasher(hash_it) == annotation_find(annotation, get_hash(hash_it))

\* BloomAnnotator::annotation_from_kmer
annotation_from_kmer(kmer) == annotation_from_hasher(hasher_from_kmer(kmer))

\* BloomAnnotator::get_annotation
get_annotation(i) == annotation_from_kmer(kmer_from_index(i))

\* No query has started: the annotator is still being filled.
NoQueryStarted == \A t \in QueryThreads : query[t].pc \in {"idle", "absent"}

\* BloomAnnotator::add_sequence
BloomAnnotator_add_sequence(sequence, column) ==
    /\ NoQueryStarted
    /\ numInserts < MaxInserts
    /\ numInserts' = numInserts + 1
    /\ annotation' = bloom_add_sequence(annotation, sequence, column)
    /\ inserted' = inserted \cup
          {<<kmer, column>> :
              kmer \in Windows(encode_sequence(sequence), GraphK + 1)}
    /\ UNCHANGED <<graph_, num_hash_functions, bloom_size_factor_,
                   total_traversed_, query>>
    /\ UNCHANGED notBloomVars

\* BloomAnnotator::add_column
BloomAnnotator_add_column(sequence) ==
    BloomAnnotator_add_sequence(sequence, Len(annotation))

\* ---- BloomAnnotator::get_annotation_corrected ----------------------------
IdleQuery == [NoQuery EXCEPT !.pc = "idle"]

Walking(t) == query[t].pc \in {"fwd", "fwd_body", "bwd", "bwd_body"}

RECURSIVE prev_edges(_, _)
prev_edges(j, m) == IF m = 0 THEN j ELSE prev_edge(prev_edges(j, m - 1))

\* Mutant: the neighbour's labels are removed instead of intersected.
merge_step_difference(q, found, loop, after) ==
    LET nextannot == q.curannot \ found
        pcount_new == popcount(nextannot)
    IN  IF pcount_new > q.pcount_old THEN [q EXCEPT !.pc = "assert_popcount"]
        ELSE IF pcount_new = 0 THEN after
        ELSE IF pcount_new < q.pcount_old
             THEN [q EXCEPT !.curannot = nextannot, !.path = 0,
                            !.pcount_old = pcount_new, !.pc = loop]
             ELSE [q EXCEPT !.pc = loop]

\* Mutant: the neighbour's annotation replaces the running one.
merge_step_replacing(q, found, loop, after) ==
    LET nextannot == found
        pcount_new == popcount(nextannot)
    IN  IF pcount_new = 0 THEN after
        ELSE IF pcount_new # q.pcount_old
             THEN [q EXCEPT !.curannot = nextannot, !.path = 0,
                            !.pcount_old = pcount_new, !.pc = loop]
             ELSE [q EXCEPT !.pc = loop]

\* Mutant: a smaller label set is accepted without restarting the counter.
merge_step_counting(q, found, loop, after) ==
    LET nextannot == merge_and(q.curannot, found)
        pcount_new == popcount(nextannot)
    IN  IF pcount_new > q.pcount_old THEN [q EXCEPT !.pc = "assert_popcount"]
        ELSE IF pcount_new = 0 THEN after
        ELSE IF pcount_new < q.pcount_old
             THEN [q EXCEPT !.curannot = nextannot,
                            !.pcount_old = pcount_new, !.pc = loop]
             ELSE [q EXCEPT !.pc = loop]

\* Mutant: a smaller label set is never accepted.
merge_step_keeping(q, found, loop, after) ==
    LET nextannot == merge_and(q.curannot, found)
        pcount_new == popcount(nextannot)
    IN  IF pcount_new > q.pcount_old THEN [q EXCEPT !.pc = "assert_popcount"]
        ELSE IF pcount_new = 0 THEN after
        ELSE [q EXCEPT !.pc = loop]

\* The end of a loop body (lines 147-166 and 198-214): AND the neighbour's
\* annotation into the running one, check the popcounts, stop on zero, accept
\* a smaller label set and restart the path counter.
merge_step(q, found, loop, after) ==
    LET nextannot == merge_and(q.curannot, found)
        pcount_new == popcount(nextannot)
    IN  IF pcount_new > q.pcount_old THEN [q EXCEPT !.pc = "assert_popcount"]
        ELSE IF pcount_new = 0 THEN after
        ELSE IF pcount_new < q.pcount_old
             THEN [q EXCEPT !.curannot = nextannot, !.path = 0,
                            !.pcount_old = pcount_new, !.pc = loop]
             ELSE [q EXCEPT !.pc = loop]

\* Mutant: the loops run while path <= path_cutoff.
path_below_cutoff_inclusive(path, path_cutoff) == path <= path_cutoff

\* The comparison of path++ < path_cutoff (lines 131 and 185).
path_below_cutoff(path, path_cutoff) == path < path_cutoff

\* Lines 169-183: the ring of the k edges behind i, the backward hasher.
EnterBackward(q) ==
    LET orig_kmer == kmer_from_index(q.i)
        indices == [m \in 0..GraphK |-> prev_edges(q.i, m)]
        back == GraphK
    IN  IF /\ Len(orig_kmer) = GraphK + 1
           /\ Head(orig_kmer) = get_edge_label(indices[back])
           /\ orig_kmer[Len(orig_kmer)]
                = get_edge_label(indices[(back + 1) % (GraphK + 1)])
        THEN [q EXCEPT !.pc = "bwd", !.indices = indices, !.back = back,
                       !.back_hasher = hasher_from_kmer(orig_kmer),
                       !.j = indices[GraphK], !.path = 0]
        ELSE [q EXCEPT !.pc = "assert_indices"]

\* Lines 111-130: the raw annotation, the two early returns.
QueryStart(t, i, path_cutoff) ==
    /\ query[t].pc = "idle"
    /\ LET orig_kmer == kmer_from_index(i)
           hasher == hasher_from_kmer(orig_kmer)
           curannot == annotation_from_hasher(hasher)
           q == [query[t] EXCEPT !.i = i, !.path_cutoff = path_cutoff,
                                 !.raw = curannot, !.hasher = hasher]
       IN  query' = [query EXCEPT ![t] =
              IF is_dummy_edge(orig_kmer)
              THEN [q EXCEPT !.pc = "done", !.curannot = {}]
              ELSE IF popcount(curannot) = 0
                   THEN [q EXCEPT !.pc = "done", !.curannot = curannot]
                   ELSE [q EXCEPT !.pc = "fwd", !.curannot = curannot,
                                  !.pcount_old = popcount(curannot),
                                  !.cur_edge = orig_kmer[Len(orig_kmer)],
                                  !.j = i, !.path = 0]]
    /\ UNCHANGED <<graph_, num_hash_functions, bloom_size_factor_,
                   annotation, total_traversed_, numInserts, inserted>>
    /\ UNCHANGED notBloomVars

\* Line 131, and the load of total_traversed_++ on line 132.
FwdEnter(t) ==
    /\ query[t].pc = "fwd"
    /\ LET q == [query[t] EXCEPT !.path = @ + 1]
       IN  query' = [query EXCEPT ![t] =
              IF path_below_cutoff(query[t].path, query[t].path_cutoff)
              THEN [q EXCEPT !.pc = "fwd_body", !.loaded = total_traversed_]
              ELSE EnterBackward(q)]
    /\ UNCHANGED <<graph_, num_hash_functions, bloom_size_factor_,
                   annotation, total_traversed_, numInserts, inserted>>
    /\ UNCHANGED notBloomVars

\* Lines 132-166: the store of total_traversed_++ and one forward step.
FwdBody(t) ==
    /\ query[t].pc = "fwd_body"
    /\ total_traversed_' = query[t].loaded + 1
    /\ LET j == next_edge(query[t].j, query[t].cur_edge)
           cur_edge == get_edge_label(j)
           hasher == update(query[t].hasher, cur_edge)
           q == [query[t] EXCEPT !.j = j, !.cur_edge = cur_edge,
                                 !.fsteps = @ + 1]
           hashed == [q EXCEPT !.hasher = hasher,
                               !.visited = @ \cup {kmer_from_index(j)}]
       IN  query' = [query EXCEPT ![t] =
              IF is_dummy_label(cur_edge) \/ ~has_the_only_outgoing_edge(j)
              THEN EnterBackward(q)
              ELSE merge_step(hashed, annotation_from_hasher(hasher), "fwd",
                              EnterBackward(hashed))]
    /\ UNCHANGED <<graph_, num_hash_functions, bloom_size_factor_,
                   annotation, numInserts, inserted>>
    /\ UNCHANGED notBloomVars

\* Lines 184-185, and the load of total_traversed_++ on line 186.
BwdEnter(t) ==
    /\ query[t].pc = "bwd"
    /\ LET q == query[t]
           head == q.indices[(q.back + 1) % (GraphK + 1)]
       IN  query' = [query EXCEPT ![t] =
              IF ~has_the_only_incoming_edge(head)
              THEN [q EXCEPT !.pc = "done"]
              ELSE IF path_below_cutoff(q.path, q.path_cutoff)
                   THEN [q EXCEPT !.path = @ + 1, !.pc = "bwd_body",
                                  !.loaded = total_traversed_]
                   ELSE [q EXCEPT !.path = @ + 1, !.pc = "done"]]
    /\ UNCHANGED <<graph_, num_hash_functions, bloom_size_factor_,
                   annotation, total_traversed_, numInserts, inserted>>
    /\ UNCHANGED notBloomVars

\* Lines 186-214: the store of total_traversed_++ and one backward step.
BwdBody(t) ==
    /\ query[t].pc = "bwd_body"
    /\ total_traversed_' = query[t].loaded + 1
    /\ LET q0 == query[t]
           slot == (q0.back + 1) % (GraphK + 1)
           indices == [q0.indices EXCEPT ![slot] = prev_edge(q0.indices[q0.back])]
           back == slot
           cur_first == get_edge_label(indices[back])
           back_hasher == reverse_update(q0.back_hasher, cur_first)
           q == [q0 EXCEPT !.indices = indices, !.back = back,
                           !.bsteps = @ + 1]
           hashed == [q EXCEPT !.back_hasher = back_hasher,
                               !.visited = @ \cup
                                  {kmer_from_index(prev_edge(q0.indices[slot]))}]
       IN  query' = [query EXCEPT ![t] =
              IF is_dummy_label(cur_first)
              THEN [q EXCEPT !.pc = "done"]
              ELSE merge_step(hashed, annotation_from_hasher(back_hasher),
                              "bwd", [hashed EXCEPT !.pc = "done"])]
    /\ UNCHANGED <<graph_, num_hash_functions, bloom_size_factor_,
                   annotation, numInserts, inserted>>
    /\ UNCHANGED notBloomVars

\* ---- specifications of Part II --------------------------------------------
\* The collector's variables while only the annotator runs.
NoCollector ==
    /\ num_threads_ = 1
    /\ memory_preallocated = 0
    /\ capacity = 0
    /\ tasks = <<>>
    /\ stop = FALSE
    /\ wpc = [w \in Workers |-> "absent"]
    /\ wtask = [w \in Workers |-> 0]
    /\ wreads = [w \in Workers |-> <<>>]
    /\ temp_storage = [w \in Workers |-> <<>>]
    /\ woffset = [w \in Workers |-> 0]
    /\ wret = [w \in Workers |-> "none"]
    /\ kmers_ = <<>>
    /\ mutex_resize_ = 0
    /\ copy_excl = 0
    /\ copy_shared = {}
    /\ sequences_storage_ = <<>>
    /\ stored_sequences_size_ = 0
    /\ main_pc = "none"
    /\ numCalls = 0
    /\ numEnqueued = 0
    /\ ran = [t \in TaskIds |-> 0]
    /\ returned = {}
    /\ extracted = {}

\* BloomAnnotator's constructor; one thread will query.
BloomStart ==
    /\ graph_ \in {GraphEdges(seqs) : seqs \in GraphPool}
    /\ num_hash_functions \in HashCounts
    /\ bloom_size_factor_ \in BloomSizeFactors
    /\ annotation = <<>>
    /\ total_traversed_ = 0
    /\ query = [t \in QueryThreads |-> IF t = 1 THEN IdleQuery ELSE NoQuery]
    /\ numInserts = 0
    /\ inserted = {}

BloomInit ==
    /\ NoCollector
    /\ NoChunks
    /\ NoLater
    /\ BloomStart

\* The steps of a query that has passed the early returns.
WalkNext(t) ==
    \/ FwdEnter(t)
    \/ FwdBody(t)
    \/ BwdEnter(t)
    \/ BwdBody(t)

QueryNext(t) ==
    \/ \E i \in Edges, path_cutoff \in 0..MaxCutoff : QueryStart(t, i, path_cutoff)
    \/ WalkNext(t)

BloomNext ==
    \/ \E sequence \in SeqPool, column \in Columns :
          BloomAnnotator_add_sequence(sequence, column)
    \/ \E sequence \in SeqPool : BloomAnnotator_add_column(sequence)
    \/ \E t \in QueryThreads : QueryNext(t)

SpecBloom == BloomInit /\ [][BloomNext]_vars

\* An annotator filled with two labelled sequences, queried by every thread.
QueriesInit ==
    /\ NoCollector
    /\ NoChunks
    /\ NoLater
    /\ graph_ \in {GraphEdges(seqs) : seqs \in GraphPool}
    /\ num_hash_functions = 1
    /\ bloom_size_factor_ = 1
    /\ annotation = bloom_add_sequence(
                        bloom_add_sequence(<<>>, <<1, 1, 2, 2>>, 0),
                        <<1, 1, 1, 1>>, 1)
    /\ total_traversed_ = 0
    /\ query = [t \in QueryThreads |-> IdleQuery]
    /\ numInserts = MaxInserts
    /\ inserted = {<<kmer, 0>> : kmer \in Windows(<<1, 1, 2, 2>>, GraphK + 1)}
                     \cup {<<kmer, 1>> : kmer \in Windows(<<1, 1, 1, 1>>, GraphK + 1)}

QueriesNext == \E t \in QueryThreads : QueryNext(t)

SpecQueries == QueriesInit /\ [][QueriesNext]_vars

(***************************************************************************)
(* Properties of Part II.                                                  *)
(***************************************************************************)
Finished(t) == query[t].pc = "done"

\* The (k+1)-mer of the queried edge.
orig_kmer(t) == kmer_from_index(query[t].i)

\* C5: every (k+1)-mer of an inserted sequence of length >= k+1, taken in the
\* graph's alphabet, is found in the column it was inserted with: add_sequence
\* and add_column leave no false negative, and no later insert turns the bit
\* off again.
C5_NoFalseNegatives ==
    \A pair \in inserted : pair[2] \in annotation_from_kmer(pair[1])

\* C5 witness: two different sequences were inserted into one column, the
\* second into a filter the first one sized.
C5_Witness ==
    /\ numInserts = MaxInserts
    /\ \E c \in Columns :
          /\ Cardinality({pair \in inserted : pair[2] = c}) >= 3
          /\ annotation[c + 1].size >= 2
          /\ annotation[c + 1].bits # 0..(annotation[c + 1].size - 1)

\* C6: the corrected annotation is a subset of the raw one, the running label
\* set only ever shrinks during both walks, its popcount is the one the code
\* tracks, and the asserts pcount_new <= pcount_old never fail.
C6_CorrectedWithinRaw ==
    /\ [](\A t \in QueryThreads :
            /\ query[t].curannot \subseteq query[t].raw
            /\ popcount(query[t].curannot) <= popcount(query[t].raw)
            /\ query[t].pc # "assert_popcount"
            /\ Walking(t) => query[t].pcount_old = popcount(query[t].curannot))
    /\ [][\A t \in QueryThreads :
            query[t].pc # "idle" => query[t].curannot' \subseteq query[t].curannot]_vars

\* C6 witness: a finished query whose walks removed a label of the raw
\* annotation.
C6_Witness ==
    \E t \in QueryThreads :
        /\ Finished(t)
        /\ query[t].curannot # {}
        /\ query[t].curannot # query[t].raw
        /\ query[t].bsteps > 0

\* The labels of the sequences that contain the k-mer.
TrueLabels(kmer) == {c \in Columns : <<kmer, c>> \in inserted}

C8_WalksBounded ==
    \A t \in QueryThreads :
        /\ query[t].pc \notin {"assert_popcount", "assert_indices"}
        /\ query[t].fsteps <= query[t].path_cutoff * popcount(query[t].raw)
        /\ query[t].bsteps <= query[t].path_cutoff * popcount(query[t].raw)
        /\ query[t].pc = "fwd_body" => OutEdges(TargetNode(query[t].j)) # {}
        /\ query[t].pc = "bwd_body" =>
              InEdges(get_node_kmer(query[t].indices[query[t].back])) # {}

\* C8 witness: a query returned whose forward walk went around a cycle of the
\* graph, back to the queried edge, and took every iteration the bound allows.
C8_Witness ==
    \E t \in QueryThreads :
        /\ Finished(t)
        /\ orig_kmer(t) \in query[t].visited
        /\ query[t].path_cutoff >= 1
        /\ query[t].fsteps = query[t].path_cutoff * popcount(query[t].raw)

\* The premises of scenario S5 for the query of thread t.
S5(t) ==
    LET i == query[t].i
        j == next_edge(i, get_edge_label(i))
    IN  /\ ~is_dummy_edge(orig_kmer(t))
        /\ query[t].raw = {0, 1}
        /\ ~is_dummy_label(get_edge_label(j))
        /\ has_the_only_outgoing_edge(j)
        /\ get_annotation(j) = {0}
        /\ query[t].path_cutoff >= 1

\* C9: when the raw annotation of edge i is {0, 1}, the edge after i has a
\* non-sentinel label, is the only outgoing edge of its node and has the raw
\* annotation {0}, the corrected annotation of i with path_cutoff >= 1 is {0}.
C9_ForwardNeighbourCorrects ==
    \A t \in QueryThreads : Finished(t) /\ S5(t) => query[t].curannot = {0}

\* C9 witness: a query in scenario S5 has returned.
C9_Witness == \E t \in QueryThreads : Finished(t) /\ S5(t)

\* A query is running on some thread.
QueryRunning == \E t \in QueryThreads : query[t].pc \notin {"idle", "absent", "done"}

\* C10: a step taken while queries run writes none of the annotator's fields,
\* so the annotator's state after the queries is its state before them.
C10_QueriesWriteNothing ==
    [][QueryRunning =>
         <<annotation, total_traversed_, num_hash_functions, bloom_size_factor_>>'
            = <<annotation, total_traversed_, num_hash_functions, bloom_size_factor_>>]_vars

\* ---- C26 -------------------------------------------------------------------
\* Thread t ends a loop body and stays in its walk.
StepInWalk(t) ==
    \/ query[t].pc = "fwd_body" /\ query'[t].pc = "fwd"
    \/ query[t].pc = "bwd_body" /\ query'[t].pc = "bwd"

\* The running label set of t ANDed with the annotation of the neighbour the
\* step has reached.
Narrowed(t) ==
    query[t].curannot \cap
       annotation_from_hasher(IF query[t].pc = "fwd_body" THEN query'[t].hasher
                              ELSE query'[t].back_hasher)

\* The step strictly reduces the popcount of the label set, not to zero.
Reduces(t) ==
    /\ popcount(Narrowed(t)) < popcount(query[t].curannot)
    /\ popcount(Narrowed(t)) # 0

\* Thread t tests the condition of one of its loops.
AtLoopTest(t) == query[t].pc \in {"fwd", "bwd"}

\* The test lets the walk take another step.
WalkGoesOn(t) ==
    \/ query[t].pc = "fwd" /\ query'[t].pc = "fwd_body"
    \/ query[t].pc = "bwd" /\ query'[t].pc = "bwd_body"

\* C26: a step of a walk sets the counter to 0 exactly when it reduces the
\* popcount of the running label set to a non-zero value, and then takes the
\* reduced set; any other step leaves the counter, which every step entered
\* has increased by one, so the counter is the number of consecutive steps
\* without reduction.  A walk takes another step only while that number is
\* below path_cutoff.  With path_cutoff = 0 no step is taken and the result
\* for a non-dummy edge is the raw annotation.
C26_CounterResetOnReduction ==
    /\ [][\A t \in QueryThreads :
            /\ StepInWalk(t) =>
                  /\ query'[t].path = 0 <=> Reduces(t)
                  /\ ~Reduces(t) =>
                        /\ query'[t].path = query[t].path
                        /\ query'[t].curannot = query[t].curannot
                  /\ Reduces(t) => query'[t].curannot = Narrowed(t)
            /\ (AtLoopTest(t) /\ query'[t] # query[t]) =>
                  /\ WalkGoesOn(t) => /\ query[t].path < query[t].path_cutoff
                                      /\ query'[t].path = query[t].path + 1
                  /\ query[t].path >= query[t].path_cutoff => ~WalkGoesOn(t)]_vars
    /\ [](\A t \in QueryThreads :
            /\ AtLoopTest(t) => query[t].path <= query[t].path_cutoff
            /\ query[t].pc \in {"fwd_body", "bwd_body"} => query[t].path >= 1
            /\ query[t].path_cutoff = 0 =>
                  /\ query[t].fsteps = 0
                  /\ query[t].bsteps = 0
                  /\ (query[t].pc = "done" /\ ~is_dummy_edge(kmer_from_index(query[t].i)))
                        => query[t].curannot = query[t].raw)

\* The forward walk of a query has taken more steps than path_cutoff, so its
\* counter was reset on the way, and since then path_cutoff >= 2 steps without
\* reduction: the walk is about to stop.
C26_Witness ==
    \E t \in QueryThreads :
        /\ query[t].pc = "fwd"
        /\ query[t].path_cutoff >= 2
        /\ query[t].fsteps > query[t].path_cutoff
        /\ query[t].path = query[t].path_cutoff

(***************************************************************************)
(*                                                                         *)
(*  Part III.  BOSS chunks                                                 *)
(*                                                                         *)
(* A k-mer is the sequence of its k+1 characters: kmer[0] is the edge      *)
(* label and kmer[1..k] is the node, kmer[k] being its last character.     *)
(* The arrays W_, last_ and weights_ are sequences whose first element is  *)
(* the reserved head, so the source's position i is element i + 1 here.    *)
(* F_ is a function on the character codes 0..alph_size-1.                 *)
(***************************************************************************)
ChunkK == 2          \* node length k of the k-mer arrays
MaxKmers == 3        \* the k-mer arrays hold up to MaxKmers k-mers

\* The bits_per_count values the weighted constructor is called with.
Widths == {1, 2}

\* KMER::operator[]
KmerChar(kmer, i) == kmer[i + 1]

\* KMER::compare_suffix(k1, k2, minus): the two k-mers agree on the node
\* without its first `minus` characters.
compare_suffix(k1, k2, minus) ==
    \A p \in (minus + 1)..(Len(k1) - 1) : KmerChar(k1, p) = KmerChar(k2, p)

\* The k-mer of a packed integer.  KMERs are ordered as packed integers: the
\* last node character is the most significant one, the edge label the least
\* significant one.
RECURSIVE KmerOfInt(_, _)
KmerOfInt(v, n) ==
    IF n = 0 THEN <<>> ELSE <<v % AlphSize>> \o KmerOfInt(v \div AlphSize, n - 1)

\* Strictly increasing sequences of n packed k-mers, all at least lo.
RECURSIVE IncreasingInts(_, _)
IncreasingInts(n, lo) ==
    IF n = 0 THEN {<<>>}
    ELSE UNION {{<<v>> \o t : t \in IncreasingInts(n - 1, v + 1)} :
                v \in lo..(AlphSize ^ (ChunkK + 1) - 1)}

\* Every sorted distinct array of up to MaxKmers k-mers of node length ChunkK.
KmerArrays ==
    UNION {{[i \in 1..n |-> KmerOfInt(a[i], ChunkK + 1)] : a \in IncreasingInts(n, 0)} :
           n \in 0..MaxKmers}

\* utils::max_uint(width)
max_uint(width) == 2 ^ width - 1

MinOf(a, b) == IF a <= b THEN a ELSE b

\* The backward scan over the earlier k-mers of the same node only.
RECURSIVE set_W_same_node(_, _, _, _, _)
set_W_same_node(kmers, it, prev, curW, alph_size) ==
    IF ~compare_suffix(kmers[it], kmers[prev], 0) THEN curW
    ELSE IF curW > 0 /\ KmerChar(kmers[prev], 0) = curW THEN curW + alph_size
    ELSE IF prev = 1 THEN curW
    ELSE set_W_same_node(kmers, it, prev - 1, curW, alph_size)

\* boss_chunk.cpp, "set W": the backward scan over the earlier k-mers that
\* share the node without its first character.
RECURSIVE set_W(_, _, _, _, _)
set_W(kmers, it, prev, curW, alph_size) ==
    IF ~compare_suffix(kmers[it], kmers[prev], 1) THEN curW
    ELSE IF curW > 0 /\ KmerChar(kmers[prev], 0) = curW THEN curW + alph_size
    ELSE IF prev = 1 THEN curW
    ELSE set_W(kmers, it, prev - 1, curW, alph_size)

\* The F loop with `if` in place of `while`.
advance_F_once(F, lastF, curF, alph_size, curpos) ==
    IF curF > lastF /\ lastF + 1 < alph_size
    THEN [F |-> [F EXCEPT ![lastF + 1] = curpos - 1], lastF |-> lastF + 1]
    ELSE [F |-> F, lastF |-> lastF]

\* while (curF > lastF && lastF + 1 < alph_size) F[++lastF] = curpos - 1;
RECURSIVE advance_F(_, _, _, _, _)
advance_F(F, lastF, curF, alph_size, curpos) ==
    IF curF > lastF /\ lastF + 1 < alph_size
    THEN advance_F([F EXCEPT ![lastF + 1] = curpos - 1], lastF + 1, curF,
                   alph_size, curpos)
    ELSE [F |-> F, lastF |-> lastF]

\* The trailing F loop left out.
fill_F_skipped(F, lastF, alph_size, curpos) == F

\* while (++lastF < alph_size) F[lastF] = curpos - 1;
fill_F(F, lastF, alph_size, curpos) ==
    [a \in DOMAIN F |-> IF a > lastF /\ a < alph_size THEN curpos - 1 ELSE F[a]]

\* The test with the node compared without its first character.
next_shares_target(kmers, it) ==
    /\ it + 1 <= Len(kmers)
    /\ compare_suffix(kmers[it], kmers[it + 1], 1)

\* it + 1 < end && compare_suffix(kmer, *(it + 1)): the next k-mer is an
\* edge of the same node.
next_shares_node(kmers, it) ==
    /\ it + 1 <= Len(kmers)
    /\ compare_suffix(kmers[it], kmers[it + 1], 0)

\* The skip that also drops sentinel-labelled edges of nodes ending in the
\* sentinel.
redundant_dummy_sink_any(next_same, curW, curF) == next_same /\ curW = 0

\* "skip redundant dummy sink edges": the k-mer is followed by one of the
\* same node, its label is the sentinel and its node does not end in one.
redundant_dummy_sink(next_same, curW, curF) ==
    next_same /\ curW = 0 /\ curF > 0

\* The state of initialize_chunk before its loop: the heads and zeroed F.
chunk_heads(alph_size, weighted) ==
    [W |-> <<0>>, last |-> <<0>>, F |-> [a \in 0..(alph_size - 1) |-> 0],
     weights |-> IF weighted THEN <<0>> ELSE <<>>, src |-> <<0>>,
     curpos |-> 1, lastF |-> 0]

\* The loop of initialize_chunk from the k-mer at index `it` on; counts = <<>>
\* for an array without counts.
RECURSIVE initialize_chunk_loop(_, _, _, _, _, _, _)
initialize_chunk_loop(st, it, kmers, counts, alph_size, k, max_count) ==
    IF it > Len(kmers) THEN st
    ELSE
      LET kmer == kmers[it]
          curW == KmerChar(kmer, 0)
          curF == KmerChar(kmer, k)
          next_same == next_shares_node(kmers, it)
      IN  IF redundant_dummy_sink(next_same, curW, curF)
          THEN initialize_chunk_loop(st, it + 1, kmers, counts, alph_size, k,
                                     max_count)
          ELSE
            LET W1 == IF it # 1 THEN set_W(kmers, it, it - 1, curW, alph_size)
                      ELSE curW
                adv == advance_F(st.F, st.lastF, curF, alph_size, st.curpos)
                w == IF /\ counts[it] # 0
                        /\ KmerChar(kmer, 0) # 0
                        /\ KmerChar(kmer, 1) # 0
                     THEN MinOf(counts[it], max_count) ELSE 0
                st1 == [W |-> Append(st.W, W1),
                        last |-> Append(st.last, IF next_same THEN 0 ELSE 1),
                        F |-> adv.F,
                        weights |-> IF st.weights # <<>>
                                    THEN Append(st.weights, w) ELSE <<>>,
                        src |-> Append(st.src, it),
                        curpos |-> st.curpos + 1,
                        lastF |-> adv.lastF]
            IN  initialize_chunk_loop(st1, it + 1, kmers, counts, alph_size, k,
                                      max_count)

\* initialize_chunk: W, last, F and weights of a sorted distinct array; src
\* records, for every position, the index of the k-mer it was written for.
initialize_chunk(alph_size, kmers, counts, k, weighted, width) ==
    LET st == initialize_chunk_loop(chunk_heads(alph_size, weighted), 1, kmers,
                                    counts, alph_size, k,
                                    IF weighted THEN max_uint(width) ELSE 0)
    IN  [W |-> st.W, last |-> st.last,
         F |-> fill_F(st.F, st.lastF, alph_size, st.curpos),
         weights |-> st.weights, src |-> st.src]

\* Chunk(alph_size, k, canonical): the chunk without edges.
Chunk(alph_size, k, canonical) ==
    [alph_size_ |-> alph_size, k_ |-> k, canonical_ |-> canonical,
     W_ |-> <<0>>, last_ |-> <<0>>, F_ |-> [a \in 0..(alph_size - 1) |-> 0],
     weights_ |-> <<>>, width |-> 64]

\* Chunk(alph_size, k, canonical, kmers)
Chunk_kmers(alph_size, k, canonical, kmers) ==
    LET r == initialize_chunk(alph_size, kmers, <<>>, k, FALSE, 0)
    IN  [alph_size_ |-> alph_size, k_ |-> k, canonical_ |-> canonical,
         W_ |-> r.W, last_ |-> r.last, F_ |-> r.F,
         weights_ |-> <<>>, width |-> 64]

\* Chunk(alph_size, k, canonical, kmers_with_counts, bits_per_count)
Chunk_counts(alph_size, k, canonical, kmers, counts, bits_per_count) ==
    LET r == initialize_chunk(alph_size, kmers, counts, k, TRUE, bits_per_count)
    IN  [alph_size_ |-> alph_size, k_ |-> k, canonical_ |-> canonical,
         W_ |-> r.W, last_ |-> r.last, F_ |-> r.F,
         weights_ |-> r.weights, width |-> bits_per_count]

\* Chunk::size()
size(c) == Len(c.W_) - 1

\* chunk_from_kmers: while (lastF + 1 < alph_size && curF != lastF) ...
RECURSIVE advance_F_vector(_, _, _, _, _)
advance_F_vector(F, lastF, curF, alph_size, curpos) ==
    IF lastF + 1 < alph_size /\ curF # lastF
    THEN advance_F_vector([F EXCEPT ![lastF + 1] = curpos - 1], lastF + 1,
                          curF, alph_size, curpos)
    ELSE [F |-> F, lastF |-> lastF]

RECURSIVE chunk_from_kmers_loop(_, _, _, _, _)
chunk_from_kmers_loop(st, i, kmers, alph_size, k) ==
    IF i > Len(kmers) THEN st
    ELSE
      LET curW == KmerChar(kmers[i], 0)
          curF == KmerChar(kmers[i], k)
          next_same == next_shares_node(kmers, i)
      IN  IF redundant_dummy_sink(next_same, curW, curF)
          THEN chunk_from_kmers_loop(st, i + 1, kmers, alph_size, k)
          ELSE
            LET W1 == IF i > 1 THEN set_W(kmers, i, i - 1, curW, alph_size)
                      ELSE curW
                adv == advance_F_vector(st.F, st.lastF, curF, alph_size,
                                        st.curpos)
                st1 == [st EXCEPT !.W = Append(st.W, W1),
                                  !.last = Append(st.last,
                                                  IF next_same THEN 0 ELSE 1),
                                  !.F = adv.F,
                                  !.src = Append(st.src, i),
                                  !.curpos = st.curpos + 1,
                                  !.lastF = adv.lastF]
            IN  chunk_from_kmers_loop(st1, i + 1, kmers, alph_size, k)

\* chunk_from_kmers(alph_size, k, kmers, num_kmers), the older builder.
chunk_from_kmers(alph_size, k, kmers) ==
    LET st == chunk_from_kmers_loop(chunk_heads(alph_size, FALSE), 1, kmers,
                                    alph_size, k)
    IN  [alph_size_ |-> alph_size, k_ |-> k, canonical_ |-> FALSE,
         W_ |-> st.W, last_ |-> st.last,
         F_ |-> fill_F(st.F, st.lastF, alph_size, st.curpos),
         weights_ |-> <<>>, width |-> 64]

\* The assertions of push_back.
push_back_asserts(c, W, F, last) ==
    /\ W < 2 * c.alph_size_
    /\ F < c.alph_size_
    /\ c.k_ # 0
    /\ c.weights_ = <<>>

\* push_back that leaves last_ as it was.
push_back_without_last(c, W, F, last) ==
    [c EXCEPT !.W_ = Append(c.W_, W),
              !.F_ = [a \in DOMAIN c.F_ |-> IF a >= F + 1 THEN c.F_[a] + 1
                                            ELSE c.F_[a]]]

\* push_back(W, F, last)
push_back(c, W, F, last) ==
    [c EXCEPT !.W_ = Append(c.W_, W),
              !.F_ = [a \in DOMAIN c.F_ |-> IF a >= F + 1 THEN c.F_[a] + 1
                                            ELSE c.F_[a]],
              !.last_ = Append(c.last_, IF last THEN 1 ELSE 0)]

\* extend: the two exit(1) branches.
extend_fatal(this, other) ==
    \/ this.alph_size_ # other.alph_size_
    \/ this.k_ # other.k_
    \/ this.canonical_ # other.canonical_
    \/ /\ size(other) # 0
       /\ size(this) # 0
       /\ (this.weights_ = <<>>) # (other.weights_ = <<>>)

\* extend that returns from an empty chunk without copying other into it.
extend_without_copy(this, other) ==
    IF size(other) = 0 \/ size(this) = 0 THEN this
    ELSE [this EXCEPT
            !.W_ = this.W_ \o Tail(other.W_),
            !.last_ = this.last_ \o Tail(other.last_),
            !.F_ = [p \in DOMAIN this.F_ |-> this.F_[p] + other.F_[p]],
            !.weights_ =
                IF other.weights_ # <<>>
                THEN this.weights_ \o
                     [j \in 1..size(other) |->
                        other.weights_[j + 1] % (2 ^ this.width)]
                ELSE this.weights_]

\* extend that leaves F_ as it was.
extend_keeping_F(this, other) ==
    IF size(other) = 0 THEN this
    ELSE IF size(this) = 0 THEN other
    ELSE [this EXCEPT
            !.W_ = this.W_ \o Tail(other.W_),
            !.last_ = this.last_ \o Tail(other.last_)]

\* extend that appends the head of other as well.
extend_with_head(this, other) ==
    IF size(other) = 0 THEN this
    ELSE IF size(this) = 0 THEN other
    ELSE [this EXCEPT
            !.W_ = this.W_ \o other.W_,
            !.last_ = this.last_ \o other.last_,
            !.F_ = [p \in DOMAIN this.F_ |-> this.F_[p] + other.F_[p]]]

\* extend(other) where it returns: `*this` afterwards.  The counts copied
\* into weights_ are stored in the width of weights_.
extend(this, other) ==
    IF size(other) = 0 THEN this
    ELSE IF size(this) = 0 THEN other
    ELSE [this EXCEPT
            !.W_ = this.W_ \o Tail(other.W_),
            !.last_ = this.last_ \o Tail(other.last_),
            !.F_ = [p \in DOMAIN this.F_ |-> this.F_[p] + other.F_[p]],
            !.weights_ =
                IF other.weights_ # <<>>
                THEN this.weights_ \o
                     [j \in 1..size(other) |->
                        other.weights_[j + 1] % (2 ^ this.width)]
                ELSE this.weights_]

\* BOSS::alph_size, the alphabet size the graph class is compiled with.
boss_alph_size == AlphSize

\* What Chunk::load returns for a stored chunk.
load(c) ==
    /\ c.k_ # 0
    /\ c.alph_size_ # 0
    /\ Len(c.W_) = Len(c.last_)
    /\ DOMAIN c.F_ = 0..(c.alph_size_ - 1)
    /\ (c.weights_ = <<>> \/ Len(c.weights_) = Len(c.W_))

\* The graph under construction before the first chunk is read.
boss_start ==
    [outcome |-> "ok", W |-> <<0>>, last |-> <<0>>, F |-> <<>>, k_ |-> 0,
     canonical |-> FALSE, weights |-> <<>>, width |-> 64]

\* One round of the second loop of build_boss_from_chunks, for the i-th file.
\* An assertion that fails is the outcome "assert".
boss_read_chunk(g, i, c, weights) ==
    IF ~load(c) THEN [g EXCEPT !.outcome = "fatal"]
    ELSE IF weights /\ c.weights_ = <<>> THEN [g EXCEPT !.outcome = "fatal"]
    ELSE IF /\ i # 1
            /\ \/ g.k_ # c.k_
               \/ boss_alph_size # c.alph_size_
               \/ g.canonical # c.canonical_
         THEN [g EXCEPT !.outcome = "fatal"]
    ELSE IF i # 1 /\ weights /\ g.width # c.width
         THEN [g EXCEPT !.outcome = "fatal"]
    ELSE
      LET g1 == IF i = 1
                THEN [g EXCEPT !.F = [a \in 0..(c.alph_size_ - 1) |-> 0],
                               !.k_ = c.k_,
                               !.canonical = c.canonical_,
                               !.weights = IF weights THEN c.weights_ ELSE <<>>,
                               !.width = IF weights THEN c.width ELSE 64]
                ELSE g
      IN  IF DOMAIN c.F_ # DOMAIN g1.F THEN [g1 EXCEPT !.outcome = "assert"]
          ELSE [g1 EXCEPT
                  !.W = g1.W \o Tail(c.W_),
                  !.last = g1.last \o Tail(c.last_),
                  !.weights = IF weights /\ i # 1
                              THEN g1.weights \o Tail(c.weights_)
                              ELSE g1.weights,
                  !.F = [p \in DOMAIN g1.F |-> g1.F[p] + c.F_[p]]]

RECURSIVE boss_read_chunks(_, _, _, _)
boss_read_chunks(g, i, files, weights) ==
    IF i > Len(files) \/ g.outcome # "ok" THEN g
    ELSE boss_read_chunks(boss_read_chunk(g, i, files[i], weights), i + 1,
                          files, weights)

\* build_boss_from_chunks(chunk_filenames, verbose, weights): files holds what
\* the named files store; weights says whether the caller asks for weights.
build_boss_from_chunks(files, weights) ==
    boss_read_chunks(boss_start, 1, files, weights)

(***************************************************************************)
(* The runs.  A run is given a sorted distinct k-mer array and a plan, the *)
(* list of constructor calls it makes: each call builds one chunk, from a  *)
(* range of the array or without edges.  The chunks are then merged,       *)
(* either by extend into one chunk (with push_back calls in between) or    *)
(* by build_boss_from_chunks.                                              *)
(***************************************************************************)
MaxPush == 1         \* push_back calls per run

\* Chunk(alph_size, k, canonical, kmers) on the k-mers lo..hi of the array.
PlanKmers(lo, hi) ==
    [ctor |-> "kmers", lo |-> lo, hi |-> hi, bits |-> 0,
     alph_size |-> AlphSize, k |-> ChunkK, canonical |-> FALSE]

\* The weighted constructor on the k-mers lo..hi of the array.
PlanCounts(lo, hi, bits) ==
    [ctor |-> "counts", lo |-> lo, hi |-> hi, bits |-> bits,
     alph_size |-> AlphSize, k |-> ChunkK, canonical |-> FALSE]

\* Chunk(alph_size, k, canonical)
PlanEmpty(alph_size, k, canonical) ==
    [ctor |-> "empty", lo |-> 1, hi |-> 0, bits |-> 0,
     alph_size |-> alph_size, k |-> k, canonical |-> canonical]

\* The count given to the k-mer at index i of the array.
CountOf(i) == i

Building == chunk_pc = "run" /\ Len(chunks) < Len(plan)

Built == chunk_pc = "run" /\ Len(chunks) = Len(plan)

NextPlan == plan[Len(chunks) + 1]

\* The constructor from k-mers runs for the next entry of the plan.
BuildChunk ==
    /\ Building
    /\ vector_chunk = NoChunk
    /\ NextPlan.ctor = "kmers"
    /\ LET d == NextPlan
           kmers == SubSeq(chunk_kmers, d.lo, d.hi)
       IN  /\ chunks' = Append(chunks,
                               Chunk_kmers(d.alph_size, d.k, d.canonical, kmers))
           /\ chunk_src' =
                  Append(chunk_src,
                         initialize_chunk(d.alph_size, kmers, <<>>, d.k,
                                          FALSE, 0).src)
    /\ UNCHANGED <<chunk_kmers, plan, this_chunk, ext_before, vector_chunk,
                   boss, chunk_pc, numPush>>
    /\ UNCHANGED notChunkVars

\* The constructor from k-mers with counts runs for the next entry.
BuildChunkCounts ==
    /\ Building
    /\ vector_chunk = NoChunk
    /\ NextPlan.ctor = "counts"
    /\ LET d == NextPlan
           kmers == SubSeq(chunk_kmers, d.lo, d.hi)
           counts == [i \in 1..Len(kmers) |-> CountOf(d.lo + i - 1)]
       IN  /\ chunks' = Append(chunks,
                               Chunk_counts(d.alph_size, d.k, d.canonical,
                                            kmers, counts, d.bits))
           /\ chunk_src' =
                  Append(chunk_src,
                         initialize_chunk(d.alph_size, kmers, counts, d.k,
                                          TRUE, d.bits).src)
    /\ UNCHANGED <<chunk_kmers, plan, this_chunk, ext_before, vector_chunk,
                   boss, chunk_pc, numPush>>
    /\ UNCHANGED notChunkVars

\* The constructor without k-mers runs for the next entry.
BuildChunkEmpty ==
    /\ Building
    /\ vector_chunk = NoChunk
    /\ NextPlan.ctor = "empty"
    /\ LET d == NextPlan
       IN  /\ chunks' = Append(chunks, Chunk(d.alph_size, d.k, d.canonical))
           /\ chunk_src' = Append(chunk_src, <<0>>)
    /\ UNCHANGED <<chunk_kmers, plan, this_chunk, ext_before, vector_chunk,
                   boss, chunk_pc, numPush>>
    /\ UNCHANGED notChunkVars

\* The older builder runs on the whole array instead.
ChunkFromKmers ==
    /\ chunk_pc = "run"
    /\ chunks = <<>>
    /\ vector_chunk = NoChunk
    /\ vector_chunk' = chunk_from_kmers(AlphSize, ChunkK, chunk_kmers)
    /\ chunk_src' = <<chunk_from_kmers_loop(chunk_heads(AlphSize, FALSE), 1,
                                            chunk_kmers, AlphSize, ChunkK).src>>
    /\ UNCHANGED <<chunk_kmers, plan, chunks, this_chunk, ext_before, boss,
                   chunk_pc, numPush>>
    /\ UNCHANGED notChunkVars

\* The merging chunk is created, with the parameters of the first chunk.
NewChunk ==
    /\ Built
    /\ plan # <<>>
    /\ this_chunk = NoChunk
    /\ boss = NoBoss
    /\ this_chunk' = Chunk(plan[1].alph_size, plan[1].k, plan[1].canonical)
    /\ UNCHANGED <<chunk_kmers, plan, chunks, chunk_src, ext_before,
                   vector_chunk, boss, chunk_pc, numPush>>
    /\ UNCHANGED notChunkVars

\* this_chunk.extend(other), other being the next chunk of the list.
Extend ==
    /\ Built
    /\ this_chunk # NoChunk
    /\ ext_before.n < Len(chunks)
    /\ LET other == chunks[ext_before.n + 1]
       IN  /\ ext_before' = [this |-> this_chunk, other |-> other,
                             done |-> TRUE, n |-> ext_before.n + 1]
           /\ IF extend_fatal(this_chunk, other)
              THEN chunk_pc' = "fatal" /\ UNCHANGED this_chunk
              ELSE /\ this_chunk' = extend(this_chunk, other)
                   /\ UNCHANGED chunk_pc
    /\ UNCHANGED <<chunk_kmers, plan, chunks, chunk_src, vector_chunk, boss,
                   numPush>>
    /\ UNCHANGED notChunkVars

\* this_chunk.push_back(W, F, last)
PushBack(W, F, last) ==
    /\ Built
    /\ this_chunk # NoChunk
    /\ numPush < MaxPush
    /\ W < 2 * this_chunk.alph_size_
    /\ F < this_chunk.alph_size_
    /\ numPush' = numPush + 1
    /\ this_chunk' = push_back(this_chunk, W, F, last)
    /\ chunk_pc' = IF push_back_asserts(this_chunk, W, F, last) THEN "run"
                   ELSE "assert"
    /\ UNCHANGED <<chunk_kmers, plan, chunks, chunk_src, ext_before,
                   vector_chunk, boss>>
    /\ UNCHANGED notChunkVars

\* build_boss_from_chunks on the files the chunks were serialized to.
BuildBoss(weights) ==
    /\ Built
    /\ plan # <<>>
    /\ this_chunk = NoChunk
    /\ boss = NoBoss
    /\ LET g == build_boss_from_chunks(chunks, weights)
       IN  /\ boss' = IF g.outcome = "ok"
                       THEN [W |-> g.W, last |-> g.last, F |-> g.F,
                             k_ |-> g.k_, canonical |-> g.canonical,
                             weights |-> g.weights, built |-> TRUE]
                       ELSE NoBoss
           /\ chunk_pc' = IF g.outcome = "ok" THEN "run" ELSE g.outcome
    /\ UNCHANGED <<chunk_kmers, plan, chunks, chunk_src, this_chunk,
                   ext_before, vector_chunk, numPush>>
    /\ UNCHANGED notChunkVars

\* The arguments push_back is called with.
PushArgs == {<<1, 1, TRUE>>, <<AlphSize + 1, 0, FALSE>>}

ChunkStart ==
    /\ chunks = <<>>
    /\ chunk_src = <<>>
    /\ this_chunk = NoChunk
    /\ ext_before = NoExtend
    /\ vector_chunk = NoChunk
    /\ boss = NoBoss
    /\ chunk_pc = "run"
    /\ numPush = 0
    /\ NoCollector
    /\ NoAnnotator
    /\ NoLater

\* The indices at which a suffix bucket starts: the k-mers of a bucket share
\* the last len characters of the node.
BucketStarts(kmers, len) ==
    {i \in 1..Len(kmers) :
        i = 1 \/ ~compare_suffix(kmers[i - 1], kmers[i], ChunkK - len)}

\* One constructor call per suffix bucket, in the order of the array; with
\* len = 0 the whole array is one bucket.
BucketPlan(kmers, len) ==
    LET starts == BucketStarts(kmers, len)
        nth(j) == CHOOSE b \in starts : Cardinality({t \in starts : t <= b}) = j
    IN  IF kmers = <<>> THEN <<PlanKmers(1, 0)>>
        ELSE [j \in 1..Cardinality(starts) |->
                PlanKmers(nth(j),
                          IF j = Cardinality(starts) THEN Len(kmers)
                          ELSE nth(j + 1) - 1)]

\* The builder runs: every array, split by every suffix length.
ChunkInit ==
    /\ chunk_kmers \in KmerArrays
    /\ plan \in {BucketPlan(chunk_kmers, len) : len \in 0..ChunkK}
    /\ ChunkStart

ChunkNext ==
    \/ BuildChunk
    \/ ChunkFromKmers
    \/ NewChunk
    \/ Extend
    \/ BuildBoss(FALSE)

SpecChunk == ChunkInit /\ [][ChunkNext]_vars

\* The arrays of the merging runs.
MergeArrays ==
    {<< <<0, 1, 1>>, <<1, 1, 1>>, <<1, 2, 1>> >>,
     << <<1, 0, 1>>, <<2, 1, 2>> >>}

\* The constructor calls a merging run chooses its plan from.
PlanPool(kmers) ==
    {PlanKmers(1, Len(kmers)), PlanKmers(1, 1), PlanKmers(2, Len(kmers)),
     PlanCounts(1, Len(kmers), 1), PlanCounts(1, Len(kmers), 2),
     PlanCounts(1, 0, 1),
     PlanEmpty(AlphSize, ChunkK, FALSE), PlanEmpty(AlphSize + 1, ChunkK, FALSE),
     PlanEmpty(AlphSize, ChunkK + 1, FALSE), PlanEmpty(AlphSize, ChunkK, TRUE)}

MergeInit ==
    /\ chunk_kmers \in MergeArrays
    /\ plan \in UNION {[1..n -> PlanPool(chunk_kmers)] : n \in 1..3}
    /\ ChunkStart

MergeNext ==
    \/ BuildChunk
    \/ BuildChunkCounts
    \/ BuildChunkEmpty
    \/ NewChunk
    \/ Extend
    \/ \E a \in PushArgs : PushBack(a[1], a[2], a[3])
    \/ \E weights \in BOOLEAN : BuildBoss(weights)

SpecMerge == MergeInit /\ [][MergeNext]_vars

(***************************************************************************)
(* Properties of the chunks.                                               *)
(***************************************************************************)
\* The k-mers lo..hi of the array the d-th constructor call was given.
PlanInput(d) == SubSeq(chunk_kmers, plan[d].lo, plan[d].hi)

\* The k-mer at index i of kmers is a sentinel-labelled edge of a node that
\* does not end in the sentinel and is followed by an edge of the same node.
RedundantSink(kmers, i) ==
    /\ KmerChar(kmers[i], 0) = 0
    /\ KmerChar(kmers[i], ChunkK) > 0
    /\ i + 1 <= Len(kmers)
    /\ \A p \in 1..ChunkK : KmerChar(kmers[i], p) = KmerChar(kmers[i + 1], p)

Kept(kmers) == {i \in 1..Len(kmers) : ~RedundantSink(kmers, i)}

\* W_ and last_ have one length and zero heads; weights_ is empty or as long.
WellShaped(c) ==
    /\ Len(c.W_) = Len(c.last_)
    /\ Len(c.W_) >= 1
    /\ c.W_[1] = 0
    /\ c.last_[1] = 0
    /\ (c.weights_ # <<>> => Len(c.weights_) = Len(c.W_))

\* C11: every chunk the constructors, push_back and extend produce has W and
\* last of one length, with weights of that length when there are weights,
\* and W[0] = 0 and last[0] = 0; a chunk built from k-mers has one position
\* more than the number of its k-mers that were not skipped.
C11_ChunkShape ==
    chunk_pc # "assert" =>
        /\ \A d \in 1..Len(chunks) :
              /\ WellShaped(chunks[d])
              /\ plan[d].ctor # "empty" =>
                    Len(chunks[d].W_) = 1 + Cardinality(Kept(PlanInput(d)))
        /\ this_chunk # NoChunk => WellShaped(this_chunk)

\* A weighted chunk that skipped a k-mer was built, and the merging chunk
\* has been extended to at least three edges and pushed to.
C11_Witness ==
    /\ chunk_pc = "run"
    /\ ext_before.n >= 2
    /\ numPush > 0
    /\ size(this_chunk) >= 3
    /\ \E d \in 1..Len(chunks) :
          /\ chunks[d].weights_ # <<>>
          /\ Len(chunks[d].W_) < 1 + Len(PlanInput(d))

\* The chunks of the list that were built from k-mers.
FromKmers == {d \in 1..Len(chunks) : plan[d].ctor # "empty"}

\* The k-mer behind position p (p >= 1) of the d-th chunk.
SourceKmer(d, p) == PlanInput(d)[chunk_src[d][p + 1]]

\* The last node character of the k-mer behind position p.
LastChar(d, p) == KmerChar(SourceKmer(d, p), ChunkK)

\* C12: in a chunk built from a sorted distinct array, F[a] is the number of
\* positions i >= 1 whose k-mer has a last node character below a, for every
\* code a; so F[0] = 0 and F does not decrease, also when codes do not occur.
C12_FCountsSmallerChars ==
    \A d \in FromKmers :
        LET c == chunks[d]
        IN  /\ \A a \in 0..(c.alph_size_ - 1) :
                  c.F_[a] = Cardinality({p \in 1..size(c) : LastChar(d, p) < a})
            /\ c.F_[0] = 0
            /\ \A a \in 1..(c.alph_size_ - 1) : c.F_[a - 1] <= c.F_[a]

\* A chunk with edges below and above a code that no k-mer ends in.
C12_Witness ==
    \E d \in FromKmers :
        LET c == chunks[d]
        IN  /\ c.F_[1] >= 1
            /\ c.F_[2] = c.F_[1]
            /\ size(c) > c.F_[2]

\* F[a + 1], with F[alph_size] read as the number of edges.
NextF(c, a) == IF a + 1 < c.alph_size_ THEN c.F_[a + 1] ELSE size(c)

\* C13 as stated: for every code a, the positions i >= 1 with last[i] = 1
\* whose last node character is a are F[a + 1] - F[a] many.
C13_LastOnesPerChar ==
    \A d \in FromKmers :
        LET c == chunks[d]
        IN  \A a \in 0..(c.alph_size_ - 1) :
                Cardinality({p \in 1..size(c) :
                                c.last_[p + 1] = 1 /\ LastChar(d, p) = a})
                    = NextF(c, a) - c.F_[a]

\* C13 amended: for every code a, the positions i >= 1 whose last node
\* character is a, whatever last[i] is, are F[a + 1] - F[a] many.
C13_EdgesPerChar ==
    \A d \in FromKmers :
        LET c == chunks[d]
        IN  \A a \in 0..(c.alph_size_ - 1) :
                Cardinality({p \in 1..size(c) : LastChar(d, p) = a})
                    = NextF(c, a) - c.F_[a]

\* A chunk in which a node has two outgoing edges, so that one of its
\* positions has last = 0.
C13_Witness ==
    \E d \in FromKmers :
        \E p \in 1..size(chunks[d]) :
            /\ chunks[d].last_[p + 1] = 0
            /\ NextF(chunks[d], LastChar(d, p)) - chunks[d].F_[LastChar(d, p)] >= 2

\* Two k-mers agree at the positions from..ChunkK.
SameFrom(x, y, from) == \A q \in from..ChunkK : KmerChar(x, q) = KmerChar(y, q)

\* In a chunk with the arrays W built from kmers, src naming the k-mer of
\* every position: position i has an earlier position j whose k-mer agrees
\* with its own at the positions from..k and whose label is the same.
EarlierSameLabel(W, src, kmers, i, from) ==
    \E j \in 1..(i - 1) :
        /\ SameFrom(kmers[src[j + 1]], kmers[src[i + 1]], from)
        /\ W[j + 1] % AlphSize = W[i + 1] % AlphSize

\* C14 as stated: W[i] >= |Sigma| exactly when an earlier position has the
\* same node (positions 1..k) and the same label.
C14_FlagOnSameNode ==
    /\ \A d \in FromKmers :
          \A i \in 1..size(chunks[d]) :
              chunks[d].W_[i + 1] >= AlphSize
                  <=> EarlierSameLabel(chunks[d].W_, chunk_src[d],
                                       PlanInput(d), i, 1)
    /\ vector_chunk # NoChunk =>
          \A i \in 1..size(vector_chunk) :
              vector_chunk.W_[i + 1] >= AlphSize
                  <=> EarlierSameLabel(vector_chunk.W_, chunk_src[1],
                                       chunk_kmers, i, 1)

\* C14 amended: W[i] >= |Sigma| exactly when the label W[i] mod |Sigma| is
\* not the sentinel and an earlier position has the same label and a k-mer
\* that agrees at positions 2..k, the node without its first character.
\* This holds of initialize_chunk and of chunk_from_kmers.
C14_FlagOnSameTarget ==
    /\ \A d \in FromKmers :
          \A i \in 1..size(chunks[d]) :
              chunks[d].W_[i + 1] >= AlphSize
                  <=> /\ chunks[d].W_[i + 1] % AlphSize # 0
                      /\ EarlierSameLabel(chunks[d].W_, chunk_src[d],
                                          PlanInput(d), i, 2)
    /\ vector_chunk # NoChunk =>
          \A i \in 1..size(vector_chunk) :
              vector_chunk.W_[i + 1] >= AlphSize
                  <=> /\ vector_chunk.W_[i + 1] % AlphSize # 0
                      /\ EarlierSameLabel(vector_chunk.W_, chunk_src[1],
                                          chunk_kmers, i, 2)

\* A chunk with a flagged label two positions after the edge that carries
\* the same label, the position in between carrying another label.
C14_Witness ==
    \E d \in FromKmers :
        \E i \in 3..size(chunks[d]) :
            /\ chunks[d].W_[i + 1] >= AlphSize
            /\ chunks[d].W_[i] % AlphSize # chunks[d].W_[i + 1] % AlphSize
            /\ chunks[d].W_[i - 1] = chunks[d].W_[i + 1] - AlphSize

\* The elements of s are the members of S, in increasing order.
EnumeratesInOrder(s, S) ==
    /\ Len(s) = Cardinality(S)
    /\ \A j \in 1..Len(s) : s[j] \in S
    /\ \A j \in 1..(Len(s) - 1) : s[j] < s[j + 1]

\* C15: initialize_chunk leaves out a k-mer x exactly when x[0] = 0,
\* x[k] > 0 and the next k-mer has the same node; every other k-mer gets
\* exactly one position, and the positions are in the order of the input.
C15_SkipsRedundantSinks ==
    \A d \in FromKmers :
        /\ EnumeratesInOrder(Tail(chunk_src[d]), Kept(PlanInput(d)))
        /\ \A p \in 1..size(chunks[d]) :
              chunks[d].W_[p + 1] % AlphSize = KmerChar(SourceKmer(d, p), 0)

\* A chunk whose array had a k-mer skipped between two k-mers that were
\* kept, and a sentinel-labelled k-mer that was kept.
C15_Witness ==
    \E d \in FromKmers :
        /\ \E i \in 2..(Len(PlanInput(d)) - 1) : RedundantSink(PlanInput(d), i)
        /\ size(chunks[d]) = Len(PlanInput(d)) - 1
        /\ chunks[d].W_[2] = 0

\* Positions p and q of the d-th chunk belong to edges of one node.
SameNode(d, p, q) == SameFrom(SourceKmer(d, p), SourceKmer(d, q), 1)

\* C16: last[i] = 1 exactly when no later position has the node of i, so
\* every node has exactly one position with last = 1, the final one of its
\* run.
C16_LastMarksEndOfNode ==
    \A d \in FromKmers :
        LET c == chunks[d]
        IN  \A p \in 1..size(c) :
                /\ c.last_[p + 1] = 1
                     <=> ~\E q \in (p + 1)..size(c) : SameNode(d, p, q)
                /\ Cardinality({q \in 1..size(c) :
                                   SameNode(d, p, q) /\ c.last_[q + 1] = 1}) = 1
                /\ \A q \in 1..size(c) :
                       SameNode(d, p, q) /\ c.last_[q + 1] = 1 => q >= p

\* A chunk with a node of two positions, followed by an edge of another
\* node into the same target.
C16_Witness ==
    \E d \in FromKmers :
        LET c == chunks[d]
        IN  /\ size(c) = 3
            /\ Len(PlanInput(d)) = 3
            /\ c.last_ = <<0, 0, 1, 1>>
            /\ SameFrom(SourceKmer(d, 2), SourceKmer(d, 3), 2)

\* What A.extend(B) leaves in A, A2 being A afterwards.
ExtendPost(A, B, A2) ==
    /\ size(A) > 0 /\ size(B) > 0 =>
          /\ A2.W_ = A.W_ \o Tail(B.W_)
          /\ A2.last_ = A.last_ \o Tail(B.last_)
          /\ \A p \in DOMAIN A.F_ : A2.F_[p] = A.F_[p] + B.F_[p]
          /\ size(A2) = size(A) + size(B)
    /\ size(B) = 0 => A2 = A
    /\ size(A) = 0 =>
          /\ A2.W_ = B.W_ /\ A2.last_ = B.last_ /\ A2.F_ = B.F_
          /\ size(B) > 0 => A2 = B

\* C17: A.extend(B) on compatible chunks appends W and last of B without
\* their heads to those of A, adds F of B to F of A and makes the size the
\* sum of the sizes, and leaves B as it was; by an empty B, A is unchanged;
\* an empty A becomes equal to B.
C17_ExtendAppends ==
    [][(ext_before'.n = ext_before.n + 1 /\ chunk_pc' = "run") =>
          /\ ExtendPost(this_chunk, chunks[ext_before'.n], this_chunk')
          /\ chunks' = chunks]_vars

\* A chunk with edges and weights was extended by another one.
C17_Witness ==
    /\ chunk_pc = "run"
    /\ ext_before.done
    /\ size(ext_before.this) > 0
    /\ size(ext_before.other) >= 2
    /\ ext_before.this.weights_ # <<>>
    /\ size(this_chunk) = size(ext_before.this) + size(ext_before.other)

\* The run has extended the merging chunk by its three chunks A, B, C in
\* turn, or has stopped on the way in the fatal error, without push_back.
MergedThree ==
    /\ Len(chunks) = 3
    /\ this_chunk # NoChunk
    /\ numPush = 0
    /\ ext_before.n = 3 \/ chunk_pc = "fatal"

\* A.extend(B.extend(C)) ends in the fatal error.
RightFatal(A, B, C) ==
    extend_fatal(B, C) \/ extend_fatal(A, extend(B, C))

\* C18: concatenation is associative on (W, last, F): extending by A, then
\* B, then C gives the arrays of A extended by (B extended by C), for any
\* three chunks, empty ones included; and one order ends in the fatal error
\* exactly when the other does.
C18_ExtendAssociative ==
    MergedThree =>
        LET A == chunks[1]
            B == chunks[2]
            C == chunks[3]
            R == extend(A, extend(B, C))
        IN  /\ chunk_pc = "fatal" <=> RightFatal(A, B, C)
            /\ chunk_pc = "run" =>
                  /\ this_chunk.W_ = R.W_
                  /\ this_chunk.last_ = R.last_
                  /\ this_chunk.F_ = R.F_

\* Three chunks were merged, the first and the last with edges and the
\* middle one empty.
C18_Witness ==
    /\ MergedThree
    /\ chunk_pc = "run"
    /\ size(chunks[1]) > 0
    /\ size(chunks[2]) = 0
    /\ size(chunks[3]) > 0
    /\ size(this_chunk) = size(chunks[1]) + size(chunks[3])

\* Two chunks differ in k, alphabet size, canonical flag, in having weights
\* or in the width of their weights.
Incompatible(A, B) ==
    \/ A.k_ # B.k_
    \/ A.alph_size_ # B.alph_size_
    \/ A.canonical_ # B.canonical_
    \/ (A.weights_ = <<>>) # (B.weights_ = <<>>)
    \/ A.weights_ # <<>> /\ B.weights_ # <<>> /\ A.width # B.width

\* C19, for extend called on two chunks that both have edges: when the
\* chunks differ in k, alphabet size, canonical flag, in being weighted or
\* in the width of their weights, the call ends in the fatal error and no
\* merged chunk is produced.
C19_IncompatibleIsFatal ==
    /\ ext_before.done
    /\ size(ext_before.this) > 0
    /\ size(ext_before.other) > 0
    /\ Incompatible(ext_before.this, ext_before.other)
    => chunk_pc = "fatal"

\* The single chunk built from the whole array.
WholeChunk == Chunk_kmers(AlphSize, ChunkK, FALSE, chunk_kmers)

\* The chunks of the buckets were concatenated, by extend or by
\* build_boss_from_chunks, into the arrays of the single chunk.
MergedIsWhole ==
    /\ this_chunk # NoChunk /\ ext_before.n = Len(chunks) =>
          /\ this_chunk.W_ = WholeChunk.W_
          /\ this_chunk.last_ = WholeChunk.last_
          /\ this_chunk.F_ = WholeChunk.F_
    /\ boss.built =>
          /\ boss.W = WholeChunk.W_
          /\ boss.last = WholeChunk.last_
          /\ boss.F = WholeChunk.F_

\* C20 as stated: for a sorted distinct array split into suffix buckets, of
\* any suffix length, one chunk per bucket concatenated in bucket order has
\* the W, last and F of the single chunk built from the whole array.
C20_BucketsRefineWhole == chunk_pc = "run" /\ MergedIsWhole

\* C20 amended: the same, for buckets whose suffix is shorter than the node
\* (at most k - 1 trailing node characters).
C20_ShortBucketsRefineWhole ==
    (\E len \in 0..(ChunkK - 1) : plan = BucketPlan(chunk_kmers, len))
        => chunk_pc = "run" /\ MergedIsWhole

\* An array of two buckets was built bucket by bucket and merged by
\* extend, the first bucket holding an edge whose label is flagged.
C20_Witness ==
    /\ plan = BucketPlan(chunk_kmers, 1)
    /\ Len(chunks) = 2
    /\ this_chunk # NoChunk
    /\ ext_before.n = 2
    /\ size(chunks[2]) > 0
    /\ \E p \in 1..size(this_chunk) : this_chunk.W_[p + 1] >= AlphSize

(***************************************************************************)
(*                                                                         *)
(*  Part IV.  Chunk constructors and recover_source_dummy_nodes            *)
(*                                                                         *)
(* DBGBOSSChunkConstructor (dbg_construct.cpp) and BOSSChunkConstructor    *)
(* (boss_chunk_construct.cpp) own a collector of (k+1)-mers; build_chunk   *)
(* joins it, recovers the source dummy k-mers when there is no suffix      *)
(* filter, and builds the chunk.  The collector's thread pool is Part I;   *)
(* here a sequence's k-mers are appended at once.  The extractor and KMER  *)
(* are declared in headers that are not part of the sources: a sequence    *)
(* contributes the k-mers of `$ sequence $`, so that a sentinel stands     *)
(* only in front of a k-mer's node or as its label (what the assertion at  *)
(* the head of the recovery loop relies on); the characters of a sequence  *)
(* are never encoded as the sentinel (encode_filter_suffix_boss has to     *)
(* map '$' to the sentinel code itself instead of calling encode).         *)
(***************************************************************************)
RecoverK == 3        \* node length k of the constructor
MaxReads == 3        \* add_sequence calls before build_chunk

\* The variants: the older constructor and the newer one.
Variants == {"dbg_construct", "boss_chunk_construct"}

\* KMER as a packed integer, the inverse of KmerOfInt.
RECURSIVE KmerInt(_)
KmerInt(kmer) ==
    IF kmer = <<>> THEN 0 ELSE kmer[1] + AlphSize * KmerInt(Tail(kmer))

KmersToInts(kmers) == [p \in DOMAIN kmers |-> KmerInt(kmers[p])]

IntsToKmers(ints, n) == [p \in DOMAIN ints |-> KmerOfInt(ints[p], n)]

\* Mutant: the array is left as the passes produced it.
sort_kmers_skipped(kmers, offset, n) == kmers

\* ips4o::parallel::sort(begin + offset, end) on k-mers.
sort_kmers(kmers, offset, n) ==
    SubSeq(kmers, 1, offset)
        \o IntsToKmers(ips4o_sort(KmersToInts(SubSeq(kmers, offset + 1, Len(kmers)))), n)

\* sort_and_remove_duplicates on k-mers of n characters.
sort_and_remove_duplicates_kmers(kmers, offset, n) ==
    IntsToKmers(sort_and_remove_duplicates(KmersToInts(kmers), offset), n)

\* shrink_kmers on k-mers of n characters.
shrink_kmers_of(kmers, offset, n) ==
    IntsToKmers(shrink_kmers(KmersToInts(kmers), offset), n)

\* KMER::to_prev(k, first_char) on a k-mer of k characters: the edge that
\* leads into the node; its label is the node's last character and its node
\* is first_char followed by the node without its last character.
to_prev(kmer, k, first_char) ==
    <<KmerChar(kmer, k - 1), first_char>> \o SubSeq(kmer, 2, k - 1)

\* to_prev applied j times.
RECURSIVE to_prev_times(_, _, _, _)
to_prev_times(kmer, k, first_char, j) ==
    IF j = 0 THEN kmer
    ELSE to_prev(to_prev_times(kmer, k, first_char, j - 1), k, first_char)

\* The k-mer of a window of k characters: the label is the last one.
KmerOfWindow(w) == <<w[Len(w)]>> \o SubSeq(w, 1, Len(w) - 1)

\* The node of the k-mer ends with suffix.
matches_suffix(kmer, suffix) ==
    /\ Len(suffix) <= Len(kmer) - 1
    /\ SubSeq(kmer, Len(kmer) - Len(suffix) + 1, Len(kmer)) = suffix

\* KmerExtractor::sequence_to_kmers(sequence, k, suffix, ...): the k-mers of
\* k characters of the sequence with a sentinel on either side.
extract_boss_kmers(sequence, k, suffix) ==
    LET padded == <<Sentinel>> \o sequence \o <<Sentinel>>
        all == [p \in 1..(Len(padded) - k + 1) |->
                   KmerOfWindow(SubSeq(padded, p, p + k - 1))]
        keep(kmer) == matches_suffix(kmer, suffix)
    IN  IF Len(sequence) < k - 1 THEN <<>> ELSE SelectSeq(all, keep)

\* The filter suffixes the constructor is given, encoded.
FilterPool == {<<>>, <<Sentinel>>, <<1>>, <<Sentinel, 1>>}

\* The sequences offered to add_sequence.
BossReadPool == {<<1, 2>>, <<1, 2, 1>>, <<1, 2, 1, 1>>, <<1, 2, 2, 1>>,
                 <<2, 1, 2, 1>>, <<1, 1, 1, 1>>, <<2, 1, 1, 2>>,
                 <<1, 2, 1, 2, 1>>, <<2, 2, 2, 2, 2>>, <<1, 1, 2, 1, 1>>}

\* Capacities the collector's array starts with.
StartCapacities == {1, 4, 16}

\* Mutant: the empty suffix does not count as a suffix of sentinels.
only_sentinels_nonempty(suffix) ==
    suffix # <<>> /\ \A p \in DOMAIN suffix : suffix[p] = Sentinel

\* filter_suffix == std::string(filter_suffix.size(), kSentinel)
only_sentinels(suffix) == \A p \in DOMAIN suffix : suffix[p] = Sentinel

\* The source dummy test of the recovery loop: kmer[1] == 0 and kmer[0] != 0.
is_source_dummy(kmer) == KmerChar(kmer, 1) = 0 /\ KmerChar(kmer, 0) # 0

\* Mutant: the scan looks at the next k-mer only.
redundant_source_dummy_next_only(kmers, i, dummy_begin) ==
    /\ i + 1 < dummy_begin
    /\ compare_suffix(kmers[i + 1], kmers[i + 2], 1)
    /\ KmerChar(kmers[i + 2], 0) = KmerChar(kmers[i + 1], 0)

\* The scan for (j = i + 1; j < dummy_begin && compare_suffix(kmer, at(j), 1);
\* ++j) finds a k-mer with the same label.  i and j count from 0.
redundant_source_dummy(kmers, i, dummy_begin) ==
    \E j \in (i + 1)..(dummy_begin - 1) :
        /\ \A m \in (i + 1)..j : compare_suffix(kmers[i + 1], kmers[m + 1], 1)
        /\ KmerChar(kmers[j + 1], 0) = KmerChar(kmers[i + 1], 0)

\* Mutant: a k-mer pushed onto a full array is lost: the array is shrunk and
\* grown, and the k-mer is not appended.
push_back_dummy_losing_on_growth(st, kmer, offset, n, doubling) ==
    LET full == Len(st.kmers) + 1 > st.capacity
        shrunk == IF full THEN shrink_kmers_of(st.kmers, offset, n)
                  ELSE st.kmers
    IN  [kmers |-> IF full THEN shrunk ELSE Append(shrunk, kmer),
         capacity |-> IF Len(shrunk) + 1 > st.capacity
                      THEN (IF doubling THEN MaxOf(1, 2 * st.capacity)
                            ELSE Len(shrunk) + 1)
                      ELSE st.capacity,
         removed |-> Len(st.kmers) - Len(shrunk)]

\* if (size() + 1 > capacity()) shrink_kmers(kmers, ..., offset);
\* kmers->push_back(kmer).  st holds the array and its capacity.  A vector
\* that is still full grows; by how much is up to the library: it doubles
\* its capacity or takes the one element it needs.
push_back_dummy(st, kmer, offset, n, doubling) ==
    LET shrunk == IF Len(st.kmers) + 1 > st.capacity
                  THEN shrink_kmers_of(st.kmers, offset, n)
                  ELSE st.kmers
    IN  [kmers |-> Append(shrunk, kmer),
         capacity |-> IF Len(shrunk) + 1 > st.capacity
                      THEN (IF doubling THEN MaxOf(1, 2 * st.capacity)
                            ELSE Len(shrunk) + 1)
                      ELSE st.capacity,
         removed |-> Len(st.kmers) - Len(shrunk)]

\* std::copy(begin + from, end, begin + to); resize(size - from + to)
move_tail(kmers, from, to) ==
    SubSeq(kmers, 1, to) \o SubSeq(kmers, from + 1, Len(kmers))

\* ---- the constructor and its operations ---------------------------------
\* DBGBOSSChunkConstructor / BOSSChunkConstructor: the collector stores
\* (k + 1)-mers; the all-sentinel k-mer is inserted for a filter of sentinels.
ConstructorInit ==
    /\ variant \in Variants
    /\ filter_suffix \in FilterPool
    /\ kmer_storage_ = IF only_sentinels(filter_suffix)
                       THEN <<SentinelRun(RecoverK + 1)>> ELSE <<>>
    /\ storage_capacity \in StartCapacities
    /\ recover = NoRecover
    /\ recover_input = <<>>
    /\ result = NoChunk
    /\ build_pc = "open"
    /\ numAdded = 0
    /\ NoCollector
    /\ NoAnnotator
    /\ NoChunks
    /\ NoPrecise
    /\ NoReaders

\* add_sequence: KmerCollector::add_sequence skips a sequence shorter than
\* the collector's k; the k-mers of the others reach the array.
ConstructorAddSequence(sequence) ==
    /\ build_pc = "open"
    /\ numAdded < MaxReads
    /\ numAdded' = numAdded + 1
    /\ kmer_storage_' =
          IF Len(sequence) < RecoverK + 1 THEN kmer_storage_
          ELSE kmer_storage_ \o extract_boss_kmers(sequence, RecoverK + 1, filter_suffix)
    /\ storage_capacity' = MaxOf(storage_capacity, Len(kmer_storage_'))
    /\ UNCHANGED <<variant, filter_suffix, recover, recover_input, result, build_pc>>
    /\ UNCHANGED notRecoverVars

\* build_chunk up to the first loop of recover_source_dummy_nodes: join()
\* sorts and deduplicates; the recovery runs when there is no suffix filter.
BuildChunkEnter ==
    /\ build_pc = "open"
    /\ LET joined == sort_and_remove_duplicates_kmers(kmer_storage_, 0, RecoverK + 1)
       IN  /\ kmer_storage_' = joined
           /\ IF Len(filter_suffix) = 0
              THEN /\ build_pc' = "first"
                   /\ recover' = [NoRecover EXCEPT !.dummy_begin = Len(joined)]
                   /\ recover_input' = joined
              ELSE /\ build_pc' = "recovered"
                   /\ UNCHANGED <<recover, recover_input>>
    /\ UNCHANGED <<variant, filter_suffix, storage_capacity, result, numAdded>>
    /\ UNCHANGED notRecoverVars

\* One iteration of the first loop, over the k-mers of the input.
RecoverFirst ==
    /\ build_pc = "first"
    /\ recover.i < recover.dummy_begin
    /\ \E doubling \in BOOLEAN :
       LET i == recover.i
           kmer == kmer_storage_[i + 1]
           st == [kmers |-> kmer_storage_, capacity |-> storage_capacity]
           kept == [st EXCEPT !.kmers[recover.cur_pos + 1] = kmer]
           pushed(s0) == push_back_dummy(s0, to_prev(kmer, RecoverK + 1, Sentinel),
                                         recover.dummy_begin, RecoverK + 1, doubling)
       IN  IF ~(KmerChar(kmer, 1) # 0 \/ KmerChar(kmer, 0) # 0
                  \/ KmerChar(kmer, RecoverK) = 0)
           THEN /\ build_pc' = "assert"
                /\ UNCHANGED <<kmer_storage_, storage_capacity, recover>>
           ELSE
             /\ build_pc' = "first"
             /\ IF variant = "dbg_construct"
                THEN IF ~is_source_dummy(kmer)
                     THEN /\ kmer_storage_' = kept.kmers
                          /\ recover' = [recover EXCEPT !.i = i + 1,
                                                        !.cur_pos = @ + 1]
                          /\ UNCHANGED storage_capacity
                     ELSE IF redundant_source_dummy(kmer_storage_, i, recover.dummy_begin)
                          THEN /\ recover' = [recover EXCEPT !.i = i + 1]
                               /\ UNCHANGED <<kmer_storage_, storage_capacity>>
                          ELSE /\ kmer_storage_' = pushed(kept).kmers
                               /\ storage_capacity' = pushed(kept).capacity
                               /\ recover' = [recover EXCEPT
                                                !.i = i + 1,
                                                !.cur_pos = @ + 1,
                                                !.shrunk = @ + pushed(kept).removed]
                ELSE IF ~is_source_dummy(kmer)
                     THEN /\ recover' = [recover EXCEPT !.i = i + 1]
                          /\ UNCHANGED <<kmer_storage_, storage_capacity>>
                     ELSE /\ kmer_storage_' = pushed(st).kmers
                          /\ storage_capacity' = pushed(st).capacity
                          /\ recover' = [recover EXCEPT
                                           !.i = i + 1,
                                           !.shrunk = @ + pushed(st).removed]
    /\ UNCHANGED <<variant, filter_suffix, recover_input, result, numAdded>>
    /\ UNCHANGED notRecoverVars

\* After the first loop: the appended range is sorted and deduplicated; the
\* older variant moves it over the gap left by the removed k-mers.
RecoverFirstEnd ==
    /\ build_pc = "first"
    /\ recover.i = recover.dummy_begin
    /\ LET sorted == sort_and_remove_duplicates_kmers(kmer_storage_,
                                                      recover.dummy_begin,
                                                      RecoverK + 1)
       IN  IF variant = "dbg_construct"
           THEN /\ kmer_storage_' = move_tail(sorted, recover.dummy_begin,
                                              recover.cur_pos)
                /\ recover' = [recover EXCEPT !.dummy_begin = recover.cur_pos,
                                              !.c = 3]
           ELSE /\ kmer_storage_' = sorted
                /\ recover' = [recover EXCEPT !.c = 3]
    /\ build_pc' = "passes"
    /\ UNCHANGED <<variant, filter_suffix, storage_capacity, recover_input,
                   result, numAdded>>
    /\ UNCHANGED notRecoverVars

\* for (size_t c = 3; c < k + 1; ++c): the head of one pass.
RecoverPassBegin ==
    /\ build_pc = "passes"
    /\ recover.c < RecoverK + 1
    /\ recover' = [recover EXCEPT !.succ_dummy_begin = recover.dummy_begin,
                                  !.dummy_begin = Len(kmer_storage_),
                                  !.i = recover.dummy_begin]
    /\ build_pc' = "pass"
    /\ UNCHANGED <<variant, filter_suffix, kmer_storage_, storage_capacity,
                   recover_input, result, numAdded>>
    /\ UNCHANGED notRecoverVars

\* One iteration of the inner loop of a pass.
RecoverPassStep ==
    /\ build_pc = "pass"
    /\ recover.i < recover.dummy_begin
    /\ \E doubling \in BOOLEAN :
       LET st == [kmers |-> kmer_storage_, capacity |-> storage_capacity]
           pushed == push_back_dummy(st, to_prev(kmer_storage_[recover.i + 1],
                                                 RecoverK + 1, Sentinel),
                                     recover.dummy_begin, RecoverK + 1, doubling)
       IN  /\ kmer_storage_' = pushed.kmers
           /\ storage_capacity' = pushed.capacity
           /\ recover' = [recover EXCEPT !.i = @ + 1,
                                         !.shrunk = @ + pushed.removed]
    /\ UNCHANGED <<variant, filter_suffix, recover_input, result, build_pc, numAdded>>
    /\ UNCHANGED notRecoverVars

\* The end of a pass: sort_and_remove_duplicates(kmers, num_threads, dummy_begin).
RecoverPassEnd ==
    /\ build_pc = "pass"
    /\ recover.i = recover.dummy_begin
    /\ kmer_storage_' = sort_and_remove_duplicates_kmers(kmer_storage_,
                                                         recover.dummy_begin,
                                                         RecoverK + 1)
    /\ recover' = [recover EXCEPT !.c = @ + 1]
    /\ build_pc' = "passes"
    /\ UNCHANGED <<variant, filter_suffix, storage_capacity, recover_input,
                   result, numAdded>>
    /\ UNCHANGED notRecoverVars

\* The last statement of recover_source_dummy_nodes: the sort of the array.
RecoverFinalSort ==
    /\ build_pc = "passes"
    /\ recover.c >= RecoverK + 1
    /\ kmer_storage_' = sort_kmers(kmer_storage_, 0, RecoverK + 1)
    /\ build_pc' = "recovered"
    /\ UNCHANGED <<variant, filter_suffix, storage_capacity, recover,
                   recover_input, result, numAdded>>
    /\ UNCHANGED notRecoverVars

\* The rest of build_chunk: the chunk of the array; the collector is cleared.
BuildChunkFinish ==
    /\ build_pc = "recovered"
    /\ result' = IF variant = "dbg_construct"
                 THEN chunk_from_kmers(AlphSize, RecoverK, kmer_storage_)
                 ELSE Chunk_kmers(AlphSize, RecoverK, FALSE, kmer_storage_)
    /\ kmer_storage_' = <<>>
    /\ build_pc' = "done"
    /\ UNCHANGED <<variant, filter_suffix, storage_capacity, recover,
                   recover_input, numAdded>>
    /\ UNCHANGED notRecoverVars

ConstructorNext ==
    \/ \E sequence \in BossReadPool : ConstructorAddSequence(sequence)
    \/ BuildChunkEnter
    \/ RecoverFirst
    \/ RecoverFirstEnd
    \/ RecoverPassBegin
    \/ RecoverPassStep
    \/ RecoverPassEnd
    \/ RecoverFinalSort
    \/ BuildChunkFinish

SpecConstructor == ConstructorInit /\ [][ConstructorNext]_vars

(***************************************************************************)
(* Properties of Part IV.                                                  *)
(***************************************************************************)
\* recover_source_dummy_nodes has returned; kmer_storage_ is its output.
Recovered == build_pc = "recovered" /\ Len(filter_suffix) = 0

\* Some other k-mer of the input has the same node without its first
\* character and the same label as the k-mer at index p.
RedundantInInput(p) ==
    \E q \in DOMAIN recover_input :
        /\ q # p
        /\ compare_suffix(recover_input[p], recover_input[q], 1)
        /\ KmerChar(recover_input[q], 0) = KmerChar(recover_input[p], 0)

\* C21: the older recover_source_dummy_nodes removes a source dummy k-mer of
\* its input exactly when another input k-mer has the same suffix from
\* position 2 on and the same label; every other input k-mer is in the output.
C21_RemovesRedundantSourceDummies ==
    (Recovered /\ variant = "dbg_construct") =>
        \A p \in DOMAIN recover_input :
            LET x == recover_input[p]
            IN  IF is_source_dummy(x)
                THEN (x \notin Range(kmer_storage_)) <=> RedundantInInput(p)
                ELSE x \in Range(kmer_storage_)

\* A run of the older variant that removed one source dummy k-mer and kept
\* another one.
C21_Witness ==
    /\ Recovered
    /\ variant = "dbg_construct"
    /\ \E p, q \in DOMAIN recover_input :
          /\ is_source_dummy(recover_input[p])
          /\ RedundantInInput(p)
          /\ recover_input[p] \notin Range(kmer_storage_)
          /\ is_source_dummy(recover_input[q])
          /\ ~RedundantInInput(q)
          /\ recover_input[q] \in Range(kmer_storage_)

\* The input k-mers the recovery keeps: the older variant drops the
\* redundant source dummy k-mers, the newer one drops nothing.
RetainedInput ==
    {recover_input[p] : p \in {q \in DOMAIN recover_input :
        ~(/\ variant = "dbg_construct"
          /\ is_source_dummy(recover_input[q])
          /\ RedundantInInput(q))}}

\* The ancestors of the retained source dummy k-mers: to_prev applied
\* 1 .. k-1 times, giving the dummy prefixes of length 2 .. k.
Ancestors ==
    {to_prev_times(x, RecoverK + 1, Sentinel, j) :
        x \in {y \in RetainedInput : is_source_dummy(y)}, j \in 1..(RecoverK - 1)}

\* C22: after recover_source_dummy_nodes the array holds the retained input
\* k-mers and, for every retained source dummy k-mer, its k-1 ancestors,
\* and nothing else, whatever was shrunk in place during the passes.
C22_AncestorsPresent ==
    Recovered => Range(kmer_storage_) = RetainedInput \cup Ancestors

\* A finished recovery during which shrink_kmers removed duplicates and
\* that produced ancestors with dummy prefixes of length 2 and 3.
C22_Witness ==
    /\ Recovered
    /\ recover.shrunk > 0
    /\ \E x \in RetainedInput :
          /\ is_source_dummy(x)
          /\ to_prev_times(x, RecoverK + 1, Sentinel, 2) \in Range(kmer_storage_)
          /\ to_prev_times(x, RecoverK + 1, Sentinel, 2) \notin Range(recover_input)

AllSentinel == SentinelRun(RecoverK + 1)

\* C23: without sequences and without a suffix filter the array is the
\* all-sentinel k-mer alone, before and after the recovery, and the chunk
\* has size 1 with W[1] = 0 and last[1] = 1; the constructor inserts the
\* all-sentinel k-mer exactly for a filter suffix made of sentinels only.
C23_EmptyInputGivesDummyChunk ==
    /\ (numAdded = 0 /\ build_pc = "open") =>
          (AllSentinel \in Range(kmer_storage_) <=>
              \A p \in DOMAIN filter_suffix : filter_suffix[p] = Sentinel)
    /\ (numAdded = 0 /\ filter_suffix = <<>>) =>
          /\ build_pc \in {"open", "first", "passes", "pass", "recovered"} =>
                kmer_storage_ = <<AllSentinel>>
          /\ build_pc = "done" =>
                /\ size(result) = 1
                /\ result.W_[2] = 0
                /\ result.last_[2] = 1

\* build_chunk has returned for a constructor without filter that was given
\* no sequence, and the recovery ran.
C23_Witness ==
    /\ numAdded = 0
    /\ filter_suffix = <<>>
    /\ build_pc = "done"
    /\ recover_input = <<AllSentinel>>
    /\ recover.c = RecoverK + 1
    /\ size(result) = 1

(***************************************************************************)
(*                                                                         *)
(*  Part V.  PreciseAnnotator and the add operations on short sequences    *)
(*                                                                         *)
(* annotation_exact maps the single hash of a k-mer to the columns that    *)
(* hold it; it is kept as its number of columns and the set of             *)
(* (hash, column) pairs inserted.                                          *)
(***************************************************************************)
\* PreciseAnnotator::add_sequence, as a function of annotation_exact.
precise_add_sequence(exact, sequence, column) ==
    LET preprocessed_seq == encode_sequence(sequence)
        hashes == {HashOf(1, kmer) : kmer \in Windows(preprocessed_seq, GraphK + 1)}
    IN  IF Len(preprocessed_seq) < GraphK + 1
        THEN exact
        ELSE [size |-> MaxOf(exact.size, column + 1),
              pairs |-> exact.pairs \cup {<<hv, column>> : hv \in hashes}]

\* PreciseAnnotator::add_sequence
PreciseAnnotator_add_sequence(sequence, column) ==
    /\ graph_ # {}
    /\ numExact < MaxInserts
    /\ numExact' = numExact + 1
    /\ annotation_exact' = precise_add_sequence(annotation_exact, sequence, column)
    /\ UNCHANGED notPreciseVars

\* PreciseAnnotator::add_column
PreciseAnnotator_add_column(sequence) ==
    PreciseAnnotator_add_sequence(sequence, annotation_exact.size)

\* A collector, a Bloom annotator and a precise annotator, each after its
\* constructor.
\* The add operations read neither the graph's edges nor the preallocated
\* buffer, so one graph and an empty buffer stand for all of them.
AddSequenceInit ==
    /\ CollectorStart
    /\ memory_preallocated = 0
    /\ BloomStart
    /\ graph_ = GraphEdges({<<1, 1, 2, 2>>})
    /\ annotation_exact = NoExact
    /\ numExact = 0
    /\ NoChunks
    /\ NoConstructor
    /\ NoReaders

MaxAdds == 3         \* add operations over the three objects together

\* Another add operation may still be called.
AddsLeft == numCalls + numInserts + numExact < MaxAdds

\* The add operations of the three classes.
AddSequenceNext ==
    \/ AddsLeft /\ \E sequence \in ReadPool : add_sequence(sequence)
    \/ AddsLeft /\ \E sequence \in SeqPool, column \in Columns :
                      BloomAnnotator_add_sequence(sequence, column)
    \/ AddsLeft /\ \E sequence \in SeqPool : BloomAnnotator_add_column(sequence)
    \/ AddsLeft /\ \E sequence \in SeqPool, column \in Columns :
                      PreciseAnnotator_add_sequence(sequence, column)
    \/ AddsLeft /\ \E sequence \in SeqPool : PreciseAnnotator_add_column(sequence)

SpecAddSequence == AddSequenceInit /\ [][AddSequenceNext]_vars

\* The state of the collector that add_sequence can touch.
CollectorState ==
    <<tasks, stop, kmers_, capacity, sequences_storage_,
      stored_sequences_size_, numEnqueued, temp_storage, mutex_resize_,
      copy_excl, copy_shared>>

\* An add operation of one of the annotators is called with a sequence
\* shorter than k + 1, or KmerCollector::add_sequence with a sequence
\* shorter than the k-mers it stores.
ShortBloomCall ==
    \E sequence \in SeqPool :
        /\ Len(sequence) < GraphK + 1
        /\ \/ \E column \in Columns : BloomAnnotator_add_sequence(sequence, column)
           \/ BloomAnnotator_add_column(sequence)

ShortPreciseCall ==
    \E sequence \in SeqPool :
        /\ Len(sequence) < GraphK + 1
        /\ \/ \E column \in Columns : PreciseAnnotator_add_sequence(sequence, column)
           \/ PreciseAnnotator_add_column(sequence)

ShortCollectorCall ==
    \E sequence \in ReadPool : Len(sequence) < k_ /\ add_sequence(sequence)

\* C24: an add operation called with a sequence shorter than k + 1 returns
\* and leaves everything as it was: the columns, every filter's size and
\* bits, the exact annotation, the collector's stored sequences and buffer.
C24_ShortSequenceIsNoOp ==
    [][/\ ShortBloomCall =>
            UNCHANGED <<annotation, inserted, annotation_exact, CollectorState>>
       /\ ShortPreciseCall =>
            UNCHANGED <<annotation, inserted, annotation_exact, CollectorState>>
       /\ ShortCollectorCall =>
            UNCHANGED <<annotation, inserted, annotation_exact, CollectorState>>]_vars

\* Every class has been called, and only with short sequences: nothing holds a column, a pair or a stored sequence.
C24_Witness ==
    /\ numInserts > 0
    /\ numExact > 0
    /\ numCalls > 0
    /\ annotation = <<>>
    /\ annotation_exact = NoExact
    /\ sequences_storage_ = <<>>
    /\ numEnqueued = 0

(***************************************************************************)
(*                                                                         *)
(*  Part VI.  The VCF reader                                               *)
(*                                                                         *)
(* A string is the sequence of its characters before the terminating NUL.  *)
(* The reference is one contig; a record is its 0-based position, its      *)
(* alleles (the first is the reference allele) and whether it carries the  *)
(* PASS filter.  faidx_fetch_seq is the library's: it is taken to return   *)
(* the bases of the closed range that lie on the contig, and the records   *)
(* offered leave at least one base on either side of the reference allele. *)
(***************************************************************************)
MaxRecords == 2      \* records in the VCF file
MaxGetSeq == 8       \* calls of get_seq

\* The characters of an allele string: the bases A, C, G, T are 1..4.
CharC == 2
CharN == 5
CharLt == 6
CharGt == 7
CharD == 8
CharZero == 10

\* The NUL that ends a string.
NUL == 0

\* The reference contig.
RefContig == <<1, 4, 3, 2, 3, 2, 4>>

\* vcf_init's argument k.
VcfKs == {1, 2, 3}

\* The allele "<CN#>" for a one-digit number.
CN(number) == <<CharLt, CharC, CharN, CharZero + number, CharGt>>

\* The records a file is made of.
VcfRecordPool ==
    {[pos |-> 2, allele |-> <<<<3>>, <<4>>>>, pass |-> TRUE],
     [pos |-> 2, allele |-> <<<<3>>, <<4>>, <<1, 1>>>>, pass |-> TRUE],
     [pos |-> 3, allele |-> <<<<2, 3>>, <<2>>>>, pass |-> TRUE],
     [pos |-> 3, allele |-> <<<<2, 3>>, CN(2), <<1>>, CN(0)>>, pass |-> TRUE],
     [pos |-> 1, allele |-> <<<<4>>, <<2>>>>, pass |-> FALSE],
     [pos |-> 4, allele |-> <<<<3>>>>, pass |-> TRUE],
     [pos |-> 4, allele |-> <<<<3>>, <<CharLt, CharD, CharGt>>>>, pass |-> TRUE],
     [pos |-> 1, allele |-> <<<<4, 3>>, CN(1), <<4, 4, 4, 4>>>>, pass |-> TRUE]}

VcfFiles == UNION {[1..n -> VcfRecordPool] : n \in 0..MaxRecords}

\* str[i] of a C string, i counted from 0.
CharAt(str, i) == IF i < Len(str) THEN str[i + 1] ELSE NUL

\* atol on a string of digits: the number its leading digits spell.
RECURSIVE atol_from(_, _)
atol_from(str, acc) ==
    IF Len(str) = 0 \/ Head(str) \notin CharZero..(CharZero + 9)
    THEN acc
    ELSE atol_from(Tail(str), acc * 10 + (Head(str) - CharZero))

atol(str) == atol_from(str, 0)

\* The loop `while (cn--) strcat(curalt, allele[0])` on an empty curalt.
RECURSIVE strcat_times(_, _)
strcat_times(str, cn) ==
    IF cn = 0 THEN <<>> ELSE str \o strcat_times(str, cn - 1)

\* faidx_fetch_seq on the contig: the bases p_beg_i..p_end_i (0-based,
\* closed) that the contig has.
faidx_fetch_seq(p_beg_i, p_end_i) ==
    SubSeq(RefContig, MaxOf(p_beg_i, 0) + 1, MinOf(p_end_i, Len(RefContig) - 1) + 1)

\* Mutant: curi keeps its value when the reader moves to the next record.
vcf_next_line_keeping_curi(v) ==
    IF v.sw < Len(vcf_file)
    THEN LET r == vcf_file[v.sw + 1]
             l == Len(r.allele[1])
             kmer1 == faidx_fetch_seq(r.pos - v.k, r.pos - 1)
             kmer3 == faidx_fetch_seq(r.pos + l, r.pos + l - 1 + v.k)
         IN  [v EXCEPT !.sw = @ + 1, !.rec = v.sw + 1,
                       !.ref_callele_l = l,
                       !.kmer1 = kmer1, !.kmer3 = kmer3,
                       !.kmer1_l = Len(kmer1), !.kmer3_l = Len(kmer3)]
    ELSE [v EXCEPT !.rec = 0]

\* vcf_next_line: rec is the index of the current record in the file, 0 for
\* NULL; sw counts the records bcf_sweep_fwd has yielded.
vcf_next_line(v) ==
    IF v.sw < Len(vcf_file)
    THEN LET r == vcf_file[v.sw + 1]
             l == Len(r.allele[1])
             kmer1 == faidx_fetch_seq(r.pos - v.k, r.pos - 1)
             kmer3 == faidx_fetch_seq(r.pos + l, r.pos + l - 1 + v.k)
         IN  [v EXCEPT !.sw = @ + 1, !.rec = v.sw + 1, !.curi = 0,
                       !.ref_callele_l = l,
                       !.kmer1 = kmer1, !.kmer3 = kmer3,
                       !.kmer1_l = Len(kmer1), !.kmer3_l = Len(kmer3)]
    ELSE [v EXCEPT !.rec = 0]

\* The part of vcf_get_seq that builds curalt and seq from allele curi of the
\* current record.  The two buffers are reallocated only when the new string
\* is longer than the last one; writing past an allocation is "overflow".
vcf_build_seq(v) ==
    LET r == vcf_file[v.rec]
        a == r.allele[v.curi + 1]
        copy_number == CharAt(a, 0) = CharLt
        cn == atol(SubSeq(a, 4, Len(a) - 1))
        alt_l == IF copy_number THEN v.ref_callele_l * cn ELSE Len(a)
        curalt == IF copy_number THEN strcat_times(r.allele[1], cn) ELSE a
        curalt_size == IF alt_l > v.curaltlen THEN alt_l + 1 ELSE v.curalt_size
        curaltlen == Len(curalt)
        seq_l == v.kmer1_l + curaltlen + v.kmer3_l
        seq_size == IF seq_l > v.seq_l THEN seq_l + 1 ELSE v.seq_size
        seq == v.kmer1 \o curalt \o v.kmer3
    IN  IF Len(curalt) + 1 > curalt_size \/ Len(seq) + 1 > seq_size
        THEN [v EXCEPT !.state = "overflow"]
        ELSE [v EXCEPT !.curalt = curalt, !.curalt_size = curalt_size,
                       !.curaltlen = curaltlen, !.seq = seq,
                       !.seq_size = seq_size, !.seq_l = Len(seq)]

\* vcf_get_seq: the structure it leaves and what it returns (2: it does not
\* return, the process has exited or run into undefined behaviour).
RECURSIVE vcf_get_seq(_)
vcf_get_seq(v) ==
    IF v.rec = 0
    THEN [vcfp |-> v, ret |-> 0]
    ELSE LET w == [v EXCEPT !.curi = @ + 1]
             r == vcf_file[w.rec]
         IN  IF w.curi >= Len(r.allele) \/ ~r.pass
             THEN vcf_get_seq(vcf_next_line(w))
             ELSE LET a == r.allele[w.curi + 1]
                  IN  IF /\ CharAt(a, 0) = CharLt
                         /\ (CharAt(a, 1) # CharC \/ CharAt(a, 2) # CharN)
                      THEN [vcfp |-> [w EXCEPT !.state = "exit"], ret |-> 2]
                      ELSE LET built == vcf_build_seq(w)
                           IN  [vcfp |-> built,
                                ret |-> IF built.state = "open" THEN 1 ELSE 2]

\* vcf_init up to its call of vcf_next_line.
vcf_loaded(k) ==
    [sw |-> 0, rec |-> 0, k |-> k, curi |-> 0, curalt |-> <<>>,
     curalt_size |-> 1, curaltlen |-> 0, seq |-> <<>>, seq_size |-> 1,
     seq_l |-> 0, kmer1 |-> <<>>, kmer3 |-> <<>>, kmer1_l |-> 0, kmer3_l |-> 0,
     ref_callele_l |-> 0, state |-> "open"]

\* vcf_init: an empty VCF file ends the process.
VcfInit ==
    /\ vcf_file \in VcfFiles
    /\ \E k \in VcfKs :
          LET first == vcf_next_line(vcf_loaded(k))
          IN  vcfp = IF first.rec = 0 THEN [first EXCEPT !.state = "exit"]
                     ELSE first
    /\ vcf_results = <<>>
    /\ NoCollector
    /\ NoAnnotator
    /\ NoChunks
    /\ NoConstructor
    /\ NoPrecise
    /\ NoPaths
    /\ NoReserving

\* One call of get_seq: the result and, when it is true, the sequence handed
\* to the caller.
VcfGetSeq ==
    /\ vcfp.state = "open"
    /\ Len(vcf_results) < MaxGetSeq
    /\ LET got == vcf_get_seq(vcfp)
       IN  /\ vcfp' = got.vcfp
           /\ vcf_results' =
                 IF got.ret = 2 THEN vcf_results
                 ELSE Append(vcf_results,
                             [ret |-> got.ret,
                              seq |-> IF got.ret = 1 THEN got.vcfp.seq ELSE <<>>])
    /\ UNCHANGED vcf_file
    /\ UNCHANGED notVcfVars

VcfNext == VcfGetSeq

SpecVcf == VcfInit /\ [][VcfNext]_vars

\* ---- what the reader is to produce
\* The up to k bases before the variant, and after its reference allele.
LeftFlank(r, k) == SubSeq(RefContig, MaxOf(1, r.pos - k + 1), r.pos)

RightFlank(r, k) ==
    SubSeq(RefContig, r.pos + Len(r.allele[1]) + 1,
           MinOf(Len(RefContig), r.pos + Len(r.allele[1]) + k))

\* An alternate allele that is neither bases nor <CN#>.
Unsupported(a) == Head(a) = CharLt /\ SubSeq(a, 1, 3) # <<CharLt, CharC, CharN>>

\* The alternate allele, <CN#> replaced by # copies of the reference allele.
AlternateOf(r, i) ==
    LET a == r.allele[i + 1]
    IN  IF Head(a) = CharLt /\ ~Unsupported(a)
        THEN LET number == a[4] - CharZero
             IN  IF number = 0 THEN <<>>
                 ELSE IF number = 1 THEN r.allele[1]
                 ELSE r.allele[1] \o r.allele[1]
        ELSE a

ExpectedOfRecord(r, k) ==
    IF r.pass
    THEN [i \in 1..(Len(r.allele) - 1) |->
             LeftFlank(r, k) \o AlternateOf(r, i) \o RightFlank(r, k)]
    ELSE <<>>

RECURSIVE ExpectedOfFile(_, _)
ExpectedOfFile(file, k) ==
    IF Len(file) = 0 THEN <<>>
    ELSE ExpectedOfRecord(Head(file), k) \o ExpectedOfFile(Tail(file), k)

Expected == ExpectedOfFile(vcf_file, vcfp.k)

\* The sequences of the calls that returned true, in call order.
Produced == [i \in 1..Len(SelectSeq(vcf_results, LAMBDA res : res.ret = 1)) |->
                SelectSeq(vcf_results, LAMBDA res : res.ret = 1)[i].seq]

\* The true results are the first expected sequences, in order, and false is
\* returned only once all of them were produced, and from then on.
InFileOrder ==
    /\ Len(Produced) <= Len(Expected)
    /\ Produced = SubSeq(Expected, 1, Len(Produced))
    /\ \A i \in 1..Len(vcf_results) :
          vcf_results[i].ret = 0 =>
             /\ Len(Produced) = Len(Expected)
             /\ \A j \in i..Len(vcf_results) : vcf_results[j].ret = 0

\* The alternate allele the reader stopped on is an unsupported one.
StoppedOnUnsupported ==
    /\ vcfp.rec # 0
    /\ vcfp.curi < Len(vcf_file[vcfp.rec].allele)
    /\ Unsupported(vcf_file[vcfp.rec].allele[vcfp.curi + 1])

\* C25 as stated: get_seq returns true once per alternate allele of every
\* PASS record, in file order, with the flanks and the allele (copy numbers
\* expanded), and false ever after: the reader of a file with records never
\* stops before that.
C25_OncePerAlternateAllele ==
    /\ InFileOrder
    /\ vcfp.state = "open" \/ Len(vcf_file) = 0

\* C25, amended: the same, unless the reader comes to an alternate allele
\* that starts with '<' and is not <CN...>, on which the process exits.
C25_OncePerSupportedAllele ==
    /\ InFileOrder
    /\ vcfp.state = "open" \/ Len(vcf_file) = 0
          \/ (vcfp.state = "exit" /\ StoppedOnUnsupported)

\* Two records were read to the end: their sequences came back, one of them
\* a copy number allele doubled, one with a clipped left flank, and then
\* false twice.
C25_Witness ==
    /\ Len(vcf_file) = 2
    /\ Len(Produced) >= 4
    /\ Produced = Expected
    /\ \E i \in 1..Len(Produced) :
          Produced[i] = <<4, 3>> \o <<2, 3, 2, 3>> \o <<2, 4>>
    /\ \E i \in 1..2 :
          /\ vcf_file[i].pass
          /\ Len(vcf_file[i].allele) > 1
          /\ Len(LeftFlank(vcf_file[i], vcfp.k)) < vcfp.k
    /\ Len(vcf_results) = Len(Produced) + 2
    /\ vcf_results[Len(vcf_results)].ret = 0

(***************************************************************************)
(*                                                                         *)
(*  Part VII.  DBGSD::call_paths                                           *)
(*                                                                         *)
(* The nodes of a DBGSD graph are the k-mers whose bit is set; node n is   *)
(* the n-th of them in the order of their packed value.  The packed k-mer  *)
(* class and the sequence encoder are declared in headers that are not     *)
(* part of the sources: a k-mer is taken as the sequence of its k          *)
(* characters, kmer[i] as its i-th character counted from 0, the packed    *)
(* value as the number whose lowest digit is the first character, and      *)
(* to_next as dropping the first character and appending one.              *)
(***************************************************************************)
\* The graphs traversed: node length and alphabet (as character codes).
SdShapes == {[k_ |-> 2, alphabet |-> <<0, 1, 2>>],
             [k_ |-> 3, alphabet |-> <<0, 1>>]}

\* DBGSD::npos
npos == 0

\* All k-mers over the alphabet.
AllKmers(shape) == [1..shape.k_ -> Range(shape.alphabet)]

RECURSIVE kmer_data(_, _)
\* Kmer::data(): the packed value, over an alphabet of `radix` characters.
kmer_data(kmer, radix) ==
    IF Len(kmer) = 0 THEN 0 ELSE Head(kmer) + radix * kmer_data(Tail(kmer), radix)

SdRadix == Len(dbgsd.alphabet)

\* kmers_.rank1(index) - 1 for the index of a k-mer.
SdRank(kmer) ==
    Cardinality({other \in dbgsd.kmers_ :
                    kmer_data(other, SdRadix) <= kmer_data(kmer, SdRadix)})

\* DBGSD::num_nodes
num_nodes == Cardinality(dbgsd.kmers_)

\* DBGSD::kmer_to_node
kmer_to_node(kmer) == IF kmer \in dbgsd.kmers_ THEN SdRank(kmer) ELSE npos

\* DBGSD::node_to_kmer
node_to_kmer(node) == CHOOSE kmer \in dbgsd.kmers_ : SdRank(kmer) = node

\* Kmer::to_next(k, c)
sd_to_next(kmer, c) == Append(Tail(kmer), c)

RECURSIVE outgoing_from(_, _)
\* DBGSD::call_outgoing_kmers with the callback of adjacent_outgoing_nodes:
\* the targets over the characters `chars` of the alphabet, in that order.
outgoing_from(node, chars) ==
    IF Len(chars) = 0 THEN <<>>
    ELSE LET next_index == kmer_to_node(sd_to_next(node_to_kmer(node), Head(chars)))
         IN  (IF next_index # npos THEN <<next_index>> ELSE <<>>)
                \o outgoing_from(node, Tail(chars))

\* DBGSD::adjacent_outgoing_nodes
adjacent_outgoing_nodes(node) == outgoing_from(node, dbgsd.alphabet)

RECURSIVE push_undiscovered(_, _, _, _)
\* Lines 273-279: the targets not yet discovered are pushed to the back of
\* the deque with the last k - 1 characters of the sequence.
push_undiscovered(targets, discovered, nodes, kmer) ==
    IF Len(targets) = 0 THEN [discovered |-> discovered, nodes |-> nodes]
    ELSE IF Head(targets) \in discovered
         THEN push_undiscovered(Tail(targets), discovered, nodes, kmer)
         ELSE push_undiscovered(Tail(targets), discovered \cup {Head(targets)},
                                Append(nodes, [id |-> Head(targets),
                                               source_kmer |-> kmer]),
                                kmer)

\* Mutant: the traversal goes on from the front of the deque.
continue_from_front(nodes) == 1

\* Lines 285-286: the traversal goes on from nodes.back().
continue_from(nodes) == Len(nodes)

\* Lines 211-219: the locals before the loop over the nodes.
CallPathsInit ==
    /\ \E shape \in SdShapes, split_to_contigs \in BOOLEAN :
          \E kmers \in SUBSET AllKmers(shape) :
             dbgsd = [k_ |-> shape.k_, alphabet |-> shape.alphabet,
                      kmers_ |-> kmers, split_to_contigs |-> split_to_contigs]
    /\ call_paths = [pc |-> "for", j |-> 1, discovered |-> {}, visited |-> {},
                     nodes |-> <<>>, path |-> <<>>, sequence |-> <<>>,
                     node |-> npos]
    /\ callbacks = <<>>
    /\ NoCollector
    /\ NoAnnotator
    /\ NoChunks
    /\ NoConstructor
    /\ NoPrecise
    /\ NoVcf
    /\ NoReserving

\* Lines 222-236: the next start node; a node not yet visited is queued with
\* its first k - 1 characters.
ForNode ==
    /\ call_paths.pc = "for"
    /\ LET j == call_paths.j
       IN  call_paths' =
              IF j > num_nodes THEN [call_paths EXCEPT !.pc = "done"]
              ELSE IF j \in call_paths.visited
                   THEN [call_paths EXCEPT !.j = @ + 1]
                   ELSE [call_paths EXCEPT
                            !.discovered = @ \cup {j},
                            !.nodes = Append(@,
                               [id |-> j,
                                source_kmer |-> SubSeq(node_to_kmer(j), 1,
                                                       dbgsd.k_ - 1)]),
                            !.pc = "queue"]
    /\ UNCHANGED <<dbgsd, callbacks>>
    /\ UNCHANGED notPathVars

\* Lines 239-244: the front of the deque is taken, or the deque is empty and
\* the loop over the nodes goes on.
QueuePop ==
    /\ call_paths.pc = "queue"
    /\ call_paths' =
          IF Len(call_paths.nodes) = 0
          THEN [call_paths EXCEPT !.pc = "for", !.j = @ + 1]
          ELSE [call_paths EXCEPT !.node = Head(call_paths.nodes).id,
                                  !.sequence = Head(call_paths.nodes).source_kmer,
                                  !.path = <<>>,
                                  !.nodes = Tail(@),
                                  !.pc = "walk"]
    /\ UNCHANGED <<dbgsd, callbacks>>
    /\ UNCHANGED notPathVars

\* Lines 248-291: one iteration of the traversal of a path.
WalkStep ==
    /\ call_paths.pc = "walk"
    /\ call_paths.node \notin call_paths.visited
    /\ LET node == call_paths.node
           sequence == Append(call_paths.sequence, node_to_kmer(node)[dbgsd.k_])
           target_nodes == adjacent_outgoing_nodes(node)
           cp == [call_paths EXCEPT !.sequence = sequence,
                                    !.path = Append(@, node),
                                    !.visited = @ \cup {node}]
           kmer == SubSeq(sequence, Len(sequence) - dbgsd.k_ + 2, Len(sequence))
           pushed == push_undiscovered(target_nodes, cp.discovered, cp.nodes, kmer)
           continue_traversal == Len(pushed.nodes) > Len(cp.nodes)
           branched == [cp EXCEPT !.discovered = pushed.discovered,
                                  !.nodes = pushed.nodes]
       IN  call_paths' =
              IF Len(target_nodes) = 0 THEN cp
              ELSE IF Len(target_nodes) = 1
                   THEN [cp EXCEPT !.node = target_nodes[1],
                                   !.discovered = @ \cup {target_nodes[1]}]
              ELSE IF dbgsd.split_to_contigs
                   THEN [branched EXCEPT !.pc = "report"]
              ELSE IF continue_traversal
                   THEN [branched EXCEPT
                            !.node = pushed.nodes[continue_from(pushed.nodes)].id,
                            !.nodes = RemoveAt(pushed.nodes,
                                               continue_from(pushed.nodes))]
                   ELSE [branched EXCEPT !.pc = "report"]
    /\ UNCHANGED <<dbgsd, callbacks>>
    /\ UNCHANGED notPathVars

\* Line 248: the node reached is already in a path.
WalkEnd ==
    /\ call_paths.pc = "walk"
    /\ call_paths.node \in call_paths.visited
    /\ call_paths' = [call_paths EXCEPT !.pc = "report"]
    /\ UNCHANGED <<dbgsd, callbacks>>
    /\ UNCHANGED notPathVars

\* Lines 293-294: a path that is not empty is reported.
Report ==
    /\ call_paths.pc = "report"
    /\ callbacks' = IF Len(call_paths.path) > 0
                    THEN Append(callbacks, [path |-> call_paths.path,
                                            sequence |-> call_paths.sequence])
                    ELSE callbacks
    /\ call_paths' = [call_paths EXCEPT !.pc = "queue"]
    /\ UNCHANGED dbgsd
    /\ UNCHANGED notPathVars

CallPathsNext ==
    \/ ForNode
    \/ QueuePop
    \/ WalkStep
    \/ WalkEnd
    \/ Report

SpecCallPaths == CallPathsInit /\ [][CallPathsNext]_vars

\* The number of places node n has in the reported paths.
Occurrences(n) ==
    Cardinality({<<c, i>> \in (1..Len(callbacks)) \X (1..num_nodes) :
                    i <= Len(callbacks[c].path) /\ callbacks[c].path[i] = n})

\* A reported path is well formed: it is not empty, each node has an
\* outgoing edge to the next, and the sequence spells the k-mers of its
\* nodes one character apart.
WellFormed(cb) ==
    /\ Len(cb.path) > 0
    /\ \A i \in 1..(Len(cb.path) - 1) :
          /\ cb.path[i] \in 1..num_nodes
          /\ \E c \in Range(dbgsd.alphabet) :
                node_to_kmer(cb.path[i + 1])
                   = Tail(node_to_kmer(cb.path[i])) \o <<c>>
    /\ Len(cb.sequence) = Len(cb.path) + dbgsd.k_ - 1
    /\ \A i \in 1..Len(cb.path) :
          /\ cb.path[i] \in 1..num_nodes
          /\ node_to_kmer(cb.path[i]) = SubSeq(cb.sequence, i, i + dbgsd.k_ - 1)

\* What is left to do: the start nodes not yet tried, the nodes not yet in a
\* path, the nodes not yet discovered, the entries of the deque and the
\* statements up to the next pop.  Every entry pushed takes a node from the
\* undiscovered ones, every iteration of the traversal puts a node into a
\* path.
WorkLeft ==
    (num_nodes + 1 - call_paths.j)
       + (num_nodes - Cardinality(call_paths.visited))
       + 4 * (num_nodes - Cardinality(call_paths.discovered))
       + 3 * Len(call_paths.nodes)
       + (CASE call_paths.pc = "walk" -> 3
            [] call_paths.pc = "report" -> 2
            [] call_paths.pc \in {"for", "queue"} -> 1
            [] OTHER -> 0)

\* C30: call_paths returns, with and without split_to_contigs: every
\* statement it executes lowers the work left, which is never negative.
\* Every path it reports is well formed, no node is in two places of the
\* reported paths, and when it has returned every node 1..num_nodes is in
\* exactly one.
C30_PathsCoverGraph ==
    /\ [][WorkLeft' < WorkLeft]_vars
    /\ [](/\ WorkLeft >= 0
          /\ call_paths.pc = "done" \/ WorkLeft > 0
          /\ \A c \in 1..Len(callbacks) : WellFormed(callbacks[c])
          /\ \A n \in 1..num_nodes : Occurrences(n) <= 1
          /\ call_paths.pc = "done" =>
                \A n \in 1..num_nodes : Occurrences(n) = 1)

\* call_paths has returned from a graph of at least five nodes, traversed
\* without splitting, in which a path went on through a branching node and
\* another branch was reported as a path of its own.
C30_Witness ==
    /\ call_paths.pc = "done"
    /\ ~dbgsd.split_to_contigs
    /\ num_nodes >= 5
    /\ Len(callbacks) >= 2
    /\ \E c \in 1..Len(callbacks) :
          \E i \in 1..(Len(callbacks[c].path) - 1) :
             Len(adjacent_outgoing_nodes(callbacks[c].path[i])) >= 2

(***************************************************************************)
(*                                                                         *)
(*  Part VIII.  try_reserve, statement by statement                        *)
(*                                                                         *)
(* One call of try_reserve from one of its two call sites: the constructor *)
(* of KmerCollector (min_size 0, the exception is not caught) and the grow *)
(* branch of extend_kmer_storage (std::bad_alloc ends the process).  A     *)
(* reservation of more than the capacity may succeed or throw.             *)
(***************************************************************************)
MaxReserve == 12     \* the constructor asks for 0..MaxReserve k-mers
MaxStored == 12      \* k-mers in the buffer when extend_kmer_storage grows it
MaxChunk == 3        \* k-mers in the chunk to append

\* The calls made: try_reserve(&kmers_, memory_preallocated / sizeof(KMER))
\* on an empty vector, and try_reserve(kmers, size + size / 2, size + chunk)
\* when size + chunk exceeds the capacity.
ReserveCalls ==
    {[site |-> "KmerCollector", capacity |-> 0, size |-> n, min_size |-> 0] :
        n \in 0..MaxReserve}
    \cup
    {[site |-> "extend_kmer_storage", capacity |-> c,
      size |-> n + n \div 2, min_size |-> n + chunk] :
        n \in 0..MaxStored, chunk \in 1..MaxChunk, c \in 0..(MaxStored + MaxChunk)}

\* Mutant: the size is reduced to two thirds of itself, not of its distance
\* to min_size.
reduced_size_of_whole(cur_size, min_size) == (cur_size * 2) \div 3

\* Line 27: size = min_size + (size - min_size) * 2 / 3
reduced_size(cur_size, min_size) ==
    min_size + ((cur_size - min_size) * 2) \div 3

\* Lines 19-20: the call is entered, size = std::max(size, min_size).
TryReserveInit ==
    /\ \E call \in ReserveCalls :
          /\ call.site = "extend_kmer_storage" => call.min_size > call.capacity
          /\ reserving = [site |-> call.site, capacity |-> call.capacity,
                          size |-> MaxOf(call.size, call.min_size),
                          min_size |-> call.min_size, pc |-> "loop",
                          asked |-> <<>>, before |-> call.capacity]
    /\ NoCollector
    /\ NoAnnotator
    /\ NoChunks
    /\ NoConstructor
    /\ NoPrecise
    /\ NoVcf
    /\ NoPaths

\* Lines 22-25: size > min_size and vector->reserve(size) returns.
TryReserveSucceeds ==
    /\ reserving.pc = "loop"
    /\ reserving.size > reserving.min_size
    /\ reserving' = [reserving EXCEPT
                        !.capacity = MaxOf(@, reserving.size),
                        !.asked = Append(@, reserving.size),
                        !.pc = "returned"]
    /\ UNCHANGED notReservingVars

\* Lines 22-28: size > min_size and vector->reserve(size) throws.
TryReserveBadAlloc ==
    /\ reserving.pc = "loop"
    /\ reserving.size > reserving.min_size
    /\ reserving.size > reserving.capacity
    /\ reserving' = [reserving EXCEPT
                        !.size = reduced_size(reserving.size, reserving.min_size),
                        !.asked = Append(@, reserving.size)]
    /\ UNCHANGED notReservingVars

\* Line 30: the loop is left and vector->reserve(min_size) returns.
TryReserveLast ==
    /\ reserving.pc = "loop"
    /\ reserving.size <= reserving.min_size
    /\ reserving' = [reserving EXCEPT
                        !.capacity = MaxOf(@, reserving.min_size),
                        !.asked = Append(@, reserving.min_size),
                        !.pc = "returned"]
    /\ UNCHANGED notReservingVars

\* Line 30: the loop is left and vector->reserve(min_size) throws.
TryReserveLastBadAlloc ==
    /\ reserving.pc = "loop"
    /\ reserving.size <= reserving.min_size
    /\ reserving.min_size > reserving.capacity
    /\ reserving' = [reserving EXCEPT
                        !.asked = Append(@, reserving.min_size),
                        !.pc = "thrown"]
    /\ UNCHANGED notReservingVars

\* extend_kmer_storage, lines 83-86: "Not enough memory", exit(1).
NotEnoughMemory ==
    /\ reserving.pc = "thrown"
    /\ reserving.site = "extend_kmer_storage"
    /\ reserving' = [reserving EXCEPT !.pc = "fatal"]
    /\ UNCHANGED notReservingVars

TryReserveNext ==
    \/ TryReserveSucceeds
    \/ TryReserveBadAlloc
    \/ TryReserveLast
    \/ TryReserveLastBadAlloc
    \/ NotEnoughMemory

\* The thread that called try_reserve keeps running.
SpecTryReserve ==
    TryReserveInit /\ [][TryReserveNext]_vars /\ WF_vars(TryReserveNext)

\* The sizes asked for so far are strictly decreasing and none is below
\* min_size.
AskedDecreasing ==
    /\ \A i \in 1..(Len(reserving.asked) - 1) :
          reserving.asked[i] > reserving.asked[i + 1]
    /\ \A i \in 1..Len(reserving.asked) : reserving.asked[i] >= reserving.min_size

\* C28: try_reserve ends, whatever the allocations do.  After a failure the
\* size asked for becomes min_size + (size - min_size) * 2 / 3, which is
\* smaller and not below min_size.  The call ends with a successful
\* reservation of at least min_size, or with a failure of the reservation
\* of exactly min_size, which in extend_kmer_storage ends the process.
C28_TryReserveTerminates ==
    /\ <>(reserving.pc \in {"returned", "fatal"}
             \/ (reserving.pc = "thrown" /\ reserving.site = "KmerCollector"))
    /\ [][/\ (reserving'.pc = "loop" /\ reserving' # reserving) =>
                /\ reserving'.size
                      = reserving.min_size
                           + ((reserving.size - reserving.min_size) * 2) \div 3
                /\ reserving'.size < reserving.size
                /\ reserving'.size >= reserving.min_size
          /\ reserving'.pc = "fatal" => reserving.pc = "thrown"]_vars
    /\ [](/\ AskedDecreasing
          /\ reserving.pc = "returned" =>
                /\ reserving.capacity >= reserving.min_size
                /\ reserving.capacity
                      = MaxOf(reserving.before, reserving.asked[Len(reserving.asked)])
          /\ reserving.pc \in {"thrown", "fatal"} =>
                /\ reserving.asked[Len(reserving.asked)] = reserving.min_size
                /\ reserving.capacity = reserving.before
                /\ reserving.site = "extend_kmer_storage"
          /\ reserving.pc # "loop" =>
                (IF reserving.pc = "returned" THEN reserving.capacity ELSE BadAlloc)
                   \in try_reserve(reserving.before,
                                   reserving.asked[1], reserving.min_size))

\* Every reservation of a call in extend_kmer_storage failed, four of them
\* above min_size, and the process has exited.
C28_Witness ==
    /\ reserving.pc = "fatal"
    /\ Len(reserving.asked) >= 5
    /\ reserving.asked[Len(reserving.asked)] = reserving.min_size

====
